---- MODULE Spec2Model ----
(***************************************************************************)
(* Shop transaction engine of the game server: Shop.buyItem, Shop.sellItem, *)
(* Shop.addToInventory, Shop.resupply and Shop.load                         *)
(* (src/server/game/components/shop/object.js) together with the parts of   *)
(* the ItemManager they call (src/unnamed/part_002); the ItemManager's      *)
(* registry of items on the ground (drop, pickup, add); and                 *)
(* UserManager.authenticate (src/server/game/components/user/manager.js).   *)
(* Each part has its own specification: Spec (a shop under buy, sell and    *)
(* resupply), MergeSpec (addToInventory on arbitrary sell lists),           *)
(* ResupplySpec (load and resupply), ItemSpec and AuthSpec.                 *)
(*                                                                          *)
(* Every command suspends once, at characterManager.get(user_id); the      *)
(* .then() callback then runs to completion on the single JS thread.  A     *)
(* command is therefore two steps: the call (the promise becomes pending)   *)
(* and the handler (one atomic step).                                       *)
(*                                                                          *)
(* Modelling decisions:                                                     *)
(*  - price multipliers are integers, so price products are exact;          *)
(*  - the shop configuration only names catalogued items (the branch of     *)
(*    load() that maps an unknown id to null is not taken);                 *)
(*  - a fingerprint (uuid) is a fresh number taken from a counter;          *)
(*  - a string that is searched (an item name) is the sequence of its       *)
(*    characters;                                                           *)
(*  - authenticate() suspends at the user lookup and at logoutOutSession;   *)
(*    the callback resumes in a later step, so calls interleave there.      *)
(***************************************************************************)
EXTENDS Integers, Sequences, FiniteSets, Bags, TLC

(* ------------------------------ bounds -------------------------------- *)
MaxPending == 2     \* commands whose character lookup is pending
MaxFp      == 7     \* item instances ever created
MaxGround  == 2     \* entries on the ground at one location
MaxStack   == 3     \* units in one stack on the ground
MaxMergeLen == 2    \* entries of a sell list before a merge
MaxQuantity == 2    \* shopQuantity of an entry before a merge
MaxObjects  == 2    \* stats objects owned by instances at one time
MaxHand     == 1    \* instances a character holds at one time
MaxCount    == 2    \* documents one load reports
MaxSaves    == 2    \* runs of the autosave callback that are followed

(* ------------------------- values and catalog ------------------------- *)
Undefined == -2     \* JS undefined in a numeric field
NaN       == -3     \* parseInt of a non-numeric string

Users == {"u1", "u2"}

ItemIds == {"bread", "coke", "knife"}

\* ItemManager.templates, as loaded from the item list
templates ==
    [bread |-> [id |-> "bread", type |-> "consumable", subtype |-> "food",
                stats |-> [price |-> 5, stackable |-> FALSE, durability |-> 1]],
     coke  |-> [id |-> "coke", type |-> "consumable", subtype |-> "drug",
                stats |-> [price |-> 3, stackable |-> TRUE, durability |-> 1]],
     knife |-> [id |-> "knife", type |-> "weapon", subtype |-> "melee",
                stats |-> [price |-> 4, stackable |-> FALSE, durability |-> 9]]]

\* ItemManager.getTemplate: undefined for an id without template
HasTemplate(itemId) == itemId \in DOMAIN templates

getTemplate(itemId) == templates[itemId]

\* Character.hasRoomForItem capacity
InventorySize == 3

\* messages of Shop.buyItem
MsgNotSelling   == "They are not selling anything."
MsgNoItem       == "They do not appear to have that item anymore"
MsgNotAvailable == "The item you where after is no longer available."
MsgRank         == "You do not have a heigh enough rank to purchase this item."
MsgInvalidTpl   == "Invalid item. The item might no longer be available."
MsgNoMoney      == "You do not have enough money."
MsgNoSpace      == "You do not have enough inventory space for that item."
\* messages of Shop.sellItem
MsgNotBuying    == "They are not interested in buying anything."
MsgInvalidItem  == "Invalid item."
MsgNotWanted    == "They are not interested in buying that item."
MsgNotWantedType == "They are not interested in buying this type of item."
MsgNoneLeft     == "You do not have any more of that item."

VARIABLES
    shop,        \* the shop's configuration: sell, buy, supply settings
    sellList,    \* this.sell.list
    loaded,      \* Shop.load() has run
    money,       \* character.stats.money, per user
    exp,         \* character.stats.exp, per user
    inventory,   \* character.inventory, per user
    pending,     \* bag of commands waiting for characterManager.get
    nextFp,      \* next fresh fingerprint
    events       \* events emitted by the step just taken, in order

VARIABLES
    auth,        \* per socket: where its authenticate() call stands, its locals
    socketUser,  \* socket.user.user_id, per socket
    clients,     \* the socket manager's list of active clients
    notices,     \* events dispatched to each socket, in order
    dropped,     \* ItemManager.dropped_items: the list of each location
    result       \* what the last ItemManager call returned

VARIABLES
    cooldown,    \* cooldown tracker: ticks left of the 'chat' key, per character
    sinceAdd,    \* history: game ticks since the character's last 'chat' add
    chatPending, \* bag of chat commands waiting for characterManager.get
    chatEvents,  \* chat events and errors sent by the step just taken
    prices,      \* the live stats.price of each template
    held,        \* an instance in memory, made by ItemManager.add
    stored,      \* the database document of the instance
    reloaded,    \* the instance made from the document
    reshuffled,  \* history: updatePrices ran since the instance was made
    statsOf,     \* the stats objects in memory, by identity
    hand,        \* instances a character holds: item id and stats object
    ground,      \* instances on the ground of one location
    bootPc,      \* where Game.init stands
    bootLog,     \* history: the loads that completed, in order
    listening,   \* socketManager.listen() was called
    autosave,    \* the autosave interval is scheduled
    autosaveEnabled, \* config.game.autosave.enabled
    saves        \* history: runs of the autosave callback

shopVars == <<shop, sellList, loaded, money, exp, inventory, pending, nextFp, events>>

authVars == <<auth, socketUser, clients, notices>>

itemVars == <<dropped, result>>

chatVars == <<cooldown, sinceAdd, chatPending, chatEvents>>

storeVars == <<prices, held, stored, reloaded, reshuffled>>

heapVars == <<statsOf, hand, ground>>

bootVars == <<bootPc, bootLog, listening, autosave, autosaveEnabled, saves>>

vars == <<shopVars, authVars, itemVars, chatVars, storeVars, heapVars, bootVars>>

\* getTemplate(itemId).stats.price as it is now: updatePrices redraws it
stats_price(itemId) == prices[itemId]

(* ------------------------------ helpers ------------------------------- *)
\* parseInt(index, 10) on the index strings a client may send
parseInt(str) ==
    CASE str = "0" -> 0
      [] str = "1" -> 1
      [] OTHER     -> NaN

IndexInputs == {"0", "1"}

\* a < b in JS, where b may be undefined (the comparison is then false)
LessThan(a, b) == IF b = Undefined THEN FALSE ELSE a < b

\* a <= b and a - b of JavaScript where b may be undefined: the comparison
\* is false and the difference is NaN
LessEq(a, b) == IF b = Undefined THEN FALSE ELSE a <= b

Minus(a, b) == IF b = Undefined THEN NaN ELSE a - b

\* array[i] for a 0-based index; FALSE stands for "no element"
HasIndex(list, i) == i >= 0 /\ i < Len(list)

\* array.splice(i, 1) for a 0-based index inside the array
splice(list, i) ==
    [k \in 1..(Len(list) - 1) |-> IF k <= i THEN list[k] ELSE list[k + 1]]

\* the elements of an array
Elements(list) == {list[k] : k \in 1..Len(list)}

\* array.findIndex(callback), 0-based, -1 when absent; matching is the set
\* of values the callback accepts
findIndex(list, matching) ==
    IF \E k \in 1..Len(list) : list[k] \in matching
    THEN (CHOOSE k \in 1..Len(list) :
             list[k] \in matching /\ \A j \in 1..(k - 1) : list[j] \notin matching) - 1
    ELSE -1

\* dice(min, max): a random integer of the range, both ends included
dice(min, max) == min..max

(* --------------------------- ItemManager ------------------------------ *)
NullItem == [id |-> "", fingerprint |-> 0, durability |-> Undefined,
             shopQuantity |-> Undefined, expRequired |-> Undefined]

\* mutant: an id without template yields an instance of the first template
addDefaultsToBread(itemId, modDurability, fp) ==
    [id |-> IF HasTemplate(itemId) THEN itemId ELSE "bread",
     fingerprint |-> fp,
     durability |-> IF modDurability = Undefined THEN 1 ELSE modDurability,
     shopQuantity |-> Undefined,
     expRequired |-> Undefined]

\* ItemManager.add(itemId, modifiers): a copy of the template with the
\* modifier's durability (Undefined: none given) and a fresh fingerprint
add(itemId, modDurability, fp) ==
    IF ~HasTemplate(itemId)
    THEN NullItem
    ELSE [id |-> getTemplate(itemId).id,
          fingerprint |-> fp,
          durability |-> IF modDurability = Undefined
                         THEN getTemplate(itemId).stats.durability
                         ELSE modDurability,
          shopQuantity |-> Undefined,
          expRequired |-> Undefined]

\* ItemManager.remove(character, item): item.destroy() flags the item, the
\* forEach drops the flagged entry from the inventory
remove(inv, item) == SelectSeq(inv, LAMBDA obj : obj.fingerprint # item.fingerprint)

(* ----------------------------- Character ------------------------------ *)
hasRoomForItem(inv, item) == Len(inv) < InventorySize

giveItem(inv, item) == Append(inv, item)

updateCash(cash, delta) == cash + delta

updateExp(xp, delta) == xp + delta

(* ------------------------------- events ------------------------------- *)
\* Game.eventToUser(user_id, type, message)
eventToUser(u, type, text, itemId, amount) ==
    [to |-> u, type |-> type, text |-> text, item |-> itemId,
     amount |-> amount, inventory |-> <<>>]

\* characterManager.updateClient(user_id)
updateClient(u) ==
    [to |-> u, type |-> "CHARACTER_UPDATE", text |-> "", item |-> "",
     amount |-> 0, inventory |-> <<>>]

\* socketManager.dispatchToRoom(locationId, {type: SHOP_UPDATE, payload})
dispatchToRoom(inv) ==
    [to |-> "room", type |-> "SHOP_UPDATE", text |-> "", item |-> "",
     amount |-> 0, inventory |-> inv]

(* -------------------------------- Shop -------------------------------- *)
\* Shop.getSellList(true): the plain objects sent to clients
getSellList(sh, list) ==
    IF ~sh.sell.enabled
    THEN <<>>
    ELSE [k \in 1..Len(list) |->
            [id |-> list[k].id,
             quantity |-> list[k].shopQuantity,
             expRequired |-> list[k].expRequired,
             price |-> stats_price(list[k].id)]]

\* mutant: a non-stackable item is stacked by id alone, whatever the entry's
\* quantity or durability
addToInventoryById(list, itemObj, amount) ==
    LET amt == IF amount # 0 THEN amount ELSE itemObj.durability
        k   == findIndex(list, {obj \in Elements(list) : obj.id = itemObj.id})
    IN IF k # -1
       THEN [list EXCEPT ![k + 1].shopQuantity =
                @ + (IF getTemplate(itemObj.id).stats.stackable THEN amt ELSE 1)]
       ELSE Append(list, [itemObj EXCEPT !.shopQuantity =
                IF getTemplate(itemObj.id).stats.stackable THEN amt
                ELSE IF amount # 0 THEN amount ELSE 1])

\* Shop.addToInventory(itemObj, amount); amount 0 stands for null
addToInventory(list, itemObj, amount) ==
    IF getTemplate(itemObj.id).stats.stackable
    THEN LET amt == IF amount # 0 THEN amount ELSE itemObj.durability
             k   == findIndex(list, {obj \in Elements(list) : obj.id = itemObj.id})
         IN IF k # -1
            THEN [list EXCEPT ![k + 1].shopQuantity = @ + amt]
            ELSE Append(list, [itemObj EXCEPT !.shopQuantity = amt])
    ELSE LET inf  == findIndex(list, {obj \in Elements(list) :
                        obj.id = itemObj.id /\ obj.shopQuantity = -1})
             same == findIndex(list, {obj \in Elements(list) :
                        obj.id = itemObj.id /\ obj.durability = itemObj.durability})
         IN IF inf # -1
            THEN list
            ELSE IF same # -1
                 THEN [list EXCEPT ![same + 1].shopQuantity = @ + 1]
                 ELSE Append(list, [itemObj EXCEPT
                          !.shopQuantity = IF amount # 0 THEN amount ELSE 1])

(* ---------------------------- Shop.buyItem ---------------------------- *)
\* mutant: the buy side's multiplier is used for the shop's selling price
BuyPriceWrongSide(sh, itemId) == stats_price(itemId) * sh.buy.priceMultiplier

\* mutant: the price is the one the template was loaded with
BuyPriceAsLoaded(sh, itemId) == templates[itemId].stats.price * sh.sell.priceMultiplier

\* price = itemTemplate.stats.price * this.sell.priceMultiplier
BuyPrice(sh, itemId) == stats_price(itemId) * sh.sell.priceMultiplier

\* mutant: the stock check is off by one and lets an empty entry through
OutOfStockOffByOne(item) == item.shopQuantity < 0 /\ item.shopQuantity # -1

\* item.shopQuantity < 1 && item.shopQuantity !== -1
OutOfStock(item) == item.shopQuantity < 1 /\ item.shopQuantity # -1

\* mutant: the inventory-space check is missing
BuyErrorNoRoomCheck(sh, list, xp, cash, inv, index, itemId) ==
    LET itemIndex == parseInt(index)
        item      == list[itemIndex + 1]
    IN  IF ~sh.sell.enabled THEN MsgNotSelling
        ELSE IF ~HasIndex(list, itemIndex) THEN MsgNoItem
        ELSE IF item.id # itemId THEN MsgNotAvailable
        ELSE IF LessThan(xp, item.expRequired) THEN MsgRank
        ELSE IF ~HasTemplate(item.id) THEN MsgInvalidTpl
        ELSE IF cash < BuyPrice(sh, item.id) THEN MsgNoMoney
        ELSE IF OutOfStock(item) THEN MsgNoItem
        ELSE ""

\* mutant: the funds check is missing
BuyErrorNoFundsCheck(sh, list, xp, cash, inv, index, itemId) ==
    LET itemIndex == parseInt(index)
        item      == list[itemIndex + 1]
    IN  IF ~sh.sell.enabled THEN MsgNotSelling
        ELSE IF ~HasIndex(list, itemIndex) THEN MsgNoItem
        ELSE IF item.id # itemId THEN MsgNotAvailable
        ELSE IF LessThan(xp, item.expRequired) THEN MsgRank
        ELSE IF ~HasTemplate(item.id) THEN MsgInvalidTpl
        ELSE IF OutOfStock(item) THEN MsgNoItem
        ELSE IF ~hasRoomForItem(inv, add(item.id, Undefined, 0)) THEN MsgNoSpace
        ELSE ""

\* mutant: the entry's id is not compared with the id the client asked for
BuyErrorNoIdCheck(sh, list, xp, cash, inv, index, itemId) ==
    LET itemIndex == parseInt(index)
        item      == list[itemIndex + 1]
    IN  IF ~sh.sell.enabled THEN MsgNotSelling
        ELSE IF ~HasIndex(list, itemIndex) THEN MsgNoItem
        ELSE IF LessThan(xp, item.expRequired) THEN MsgRank
        ELSE IF ~HasTemplate(item.id) THEN MsgInvalidTpl
        ELSE IF cash < BuyPrice(sh, item.id) THEN MsgNoMoney
        ELSE IF OutOfStock(item) THEN MsgNoItem
        ELSE IF ~hasRoomForItem(inv, add(item.id, Undefined, 0)) THEN MsgNoSpace
        ELSE ""

\* mutant: the inventory space is checked before the rank
BuyErrorSpaceBeforeRank(sh, list, xp, cash, inv, index, itemId) ==
    LET itemIndex == parseInt(index)
        item      == list[itemIndex + 1]
    IN  IF ~sh.sell.enabled THEN MsgNotSelling
        ELSE IF ~HasIndex(list, itemIndex) THEN MsgNoItem
        ELSE IF item.id # itemId THEN MsgNotAvailable
        ELSE IF ~hasRoomForItem(inv, add(item.id, Undefined, 0)) THEN MsgNoSpace
        ELSE IF LessThan(xp, item.expRequired) THEN MsgRank
        ELSE IF ~HasTemplate(item.id) THEN MsgInvalidTpl
        ELSE IF cash < BuyPrice(sh, item.id) THEN MsgNoMoney
        ELSE IF OutOfStock(item) THEN MsgNoItem
        ELSE ""

\* the checks of the handler in order: the message of the first check that
\* fails, "" when all pass
BuyError(sh, list, xp, cash, inv, index, itemId) ==
    LET itemIndex == parseInt(index)
        item      == list[itemIndex + 1]
    IN  IF ~sh.sell.enabled THEN MsgNotSelling
        ELSE IF ~HasIndex(list, itemIndex) THEN MsgNoItem
        ELSE IF item.id # itemId THEN MsgNotAvailable
        ELSE IF LessThan(xp, item.expRequired) THEN MsgRank
        ELSE IF ~HasTemplate(item.id) THEN MsgInvalidTpl
        ELSE IF cash < BuyPrice(sh, item.id) THEN MsgNoMoney
        ELSE IF OutOfStock(item) THEN MsgNoItem
        ELSE IF ~hasRoomForItem(inv, add(item.id, Undefined, 0)) THEN MsgNoSpace
        ELSE ""

\* mutant: the stock is not decremented
TakeFromStockForgets(item) == item

\* if (item.shopQuantity !== -1) item.shopQuantity = item.shopQuantity - 1
TakeFromStock(item) ==
    IF item.shopQuantity # -1
    THEN [item EXCEPT !.shopQuantity = @ - 1]
    ELSE item

\* if (item.shopQuantity <= 0) this.sell.list.splice(itemIndex, 1)
PruneSold(list, itemIndex) ==
    IF list[itemIndex + 1].shopQuantity <= 0 THEN splice(list, itemIndex) ELSE list

\* the events of a successful buy; list is the sell list when they are sent
BuyEvents(sh, list, u, itemIndex, price) ==
    <<updateClient(u),
      eventToUser(u, "success", "You have purchased 1x", list[itemIndex + 1].id, price)>>
    \o (IF list[itemIndex + 1].shopQuantity # -1
        THEN <<dispatchToRoom(getSellList(sh, list))>>
        ELSE <<>>)

\* buyItem(user_id, index, itemId): the call; the handler runs later
BuyCall(u, index, itemId) ==
    /\ loaded
    /\ BagCardinality(pending) < MaxPending
    /\ LET c == [op |-> "buy", user |-> u, index |-> index, itemId |-> itemId,
                 fingerprint |-> 0]
       IN pending' = pending (+) SetToBag({c})
    /\ events' = <<>>
    /\ UNCHANGED <<shop, sellList, loaded, money, exp, inventory, nextFp>>

\* the .then() callback of buyItem
BuyHandler(c) ==
    /\ c.op = "buy"
    /\ BagIn(c, pending)
    /\ nextFp <= MaxFp
    /\ pending' = pending (-) SetToBag({c})
    /\ LET u   == c.user
           err == BuyError(shop, sellList, exp[u], money[u], inventory[u],
                           c.index, c.itemId)
           itemIndex == parseInt(c.index)
       IN IF err # ""
          THEN /\ events' = <<eventToUser(u, "error", err, "", 0)>>
               /\ UNCHANGED <<sellList, money, inventory, nextFp>>
          ELSE LET item      == sellList[itemIndex + 1]
                   price     == BuyPrice(shop, item.id)
                   itemToAdd == add(item.id, Undefined, nextFp)
                   taken     == [sellList EXCEPT ![itemIndex + 1] = TakeFromStock(item)]
               IN /\ money' = [money EXCEPT ![u] = updateCash(@, price * (-1))]
                  /\ inventory' = [inventory EXCEPT ![u] = giveItem(@, itemToAdd)]
                  /\ events' = BuyEvents(shop, taken, u, itemIndex, price)
                  /\ sellList' = PruneSold(taken, itemIndex)
                  /\ nextFp' = nextFp + 1
    /\ UNCHANGED <<shop, loaded, exp>>

\* characterManager.get rejects: buyItem's .catch logs, sellItem's swallows
LookupRejects(c) ==
    /\ BagIn(c, pending)
    /\ pending' = pending (-) SetToBag({c})
    /\ events' = <<>>
    /\ UNCHANGED <<shop, sellList, loaded, money, exp, inventory, nextFp>>

(* ---------------------------- Shop.sellItem --------------------------- *)
\* mutant: the ignore lists are not consulted
SellErrorNoIgnoreCheck(sh, inv, fingerprint) ==
    LET index == findIndex(inv, {obj \in Elements(inv) : obj.fingerprint = fingerprint})
        item  == inv[index + 1]
        tpl   == getTemplate(item.id)
    IN  IF ~sh.buy.enabled THEN MsgNotBuying
        ELSE IF index = -1 THEN MsgInvalidItem
        ELSE IF sh.buy.list # {} /\ item.id \notin sh.buy.list THEN MsgNotWanted
        ELSE IF tpl.stats.stackable /\ item.durability < 1 THEN MsgNoneLeft
        ELSE ""

\* the checks of the handler in order: the message of the first check that
\* fails, "" when all pass
SellError(sh, inv, fingerprint) ==
    LET index == findIndex(inv, {obj \in Elements(inv) : obj.fingerprint = fingerprint})
        item  == inv[index + 1]
        tpl   == getTemplate(item.id)
    IN  IF ~sh.buy.enabled THEN MsgNotBuying
        ELSE IF index = -1 THEN MsgInvalidItem
        ELSE IF sh.buy.list # {} /\ item.id \notin sh.buy.list THEN MsgNotWanted
        ELSE IF tpl.type \in sh.buy.ignoreType \/ tpl.subtype \in sh.buy.ignoreSubtype
             THEN MsgNotWantedType
        ELSE IF tpl.stats.stackable /\ item.durability < 1 THEN MsgNoneLeft
        ELSE ""

\* pricePerUnit = itemTemplate.stats.price * this.buy.priceMultiplier
SellPrice(sh, itemId) == stats_price(itemId) * sh.buy.priceMultiplier

\* the item handed to the shop: a fresh one-unit instance of a stackable
\* item, the inventory entry itself otherwise
SoldItem(inv, index, fp) ==
    IF getTemplate(inv[index + 1].id).stats.stackable
    THEN add(inv[index + 1].id, 1, fp)
    ELSE inv[index + 1]

\* mutant: a sold item that does not stack stays in the inventory
InventoryAfterSaleKeeps(inv, index) ==
    IF getTemplate(inv[index + 1].id).stats.stackable
    THEN LET less == [inv EXCEPT ![index + 1].durability = @ - 1]
         IN IF less[index + 1].durability <= 0
            THEN remove(less, less[index + 1])
            ELSE less
    ELSE inv

\* the inventory after the sale: item.removeDurability(1) and removal at 0
\* for a stackable item, splice(index, 1) otherwise
InventoryAfterSale(inv, index) ==
    IF getTemplate(inv[index + 1].id).stats.stackable
    THEN LET less == [inv EXCEPT ![index + 1].durability = @ - 1]
         IN IF less[index + 1].durability <= 0
            THEN remove(less, less[index + 1])
            ELSE less
    ELSE splice(inv, index)

\* mutant: every sale is rewarded with experience
ExpAfterSaleAlways(xp, soldItem) == updateExp(xp, 2)

\* if (soldItem.subtype === 'drug') character.updateExp(2)
ExpAfterSale(xp, soldItem) ==
    IF getTemplate(soldItem.id).subtype = "drug" THEN updateExp(xp, 2) ELSE xp

\* sellItem(user_id, fingerprint): the call; the handler runs later
SellCall(u, fingerprint) ==
    /\ loaded
    /\ BagCardinality(pending) < MaxPending
    /\ LET c == [op |-> "sell", user |-> u, index |-> "", itemId |-> "",
                 fingerprint |-> fingerprint]
       IN pending' = pending (+) SetToBag({c})
    /\ events' = <<>>
    /\ UNCHANGED <<shop, sellList, loaded, money, exp, inventory, nextFp>>

\* the .then() callback of sellItem
SellHandler(c) ==
    /\ c.op = "sell"
    /\ BagIn(c, pending)
    /\ nextFp <= MaxFp
    /\ pending' = pending (-) SetToBag({c})
    /\ LET u   == c.user
           err == SellError(shop, inventory[u], c.fingerprint)
       IN IF err # ""
          THEN /\ events' = <<eventToUser(u, "error", err, "", 0)>>
               /\ UNCHANGED <<sellList, money, exp, inventory, nextFp>>
          ELSE LET index == findIndex(inventory[u],
                                {obj \in Elements(inventory[u]) :
                                    obj.fingerprint = c.fingerprint})
                   item  == inventory[u][index + 1]
                   pricePerUnit == SellPrice(shop, item.id)
                   soldItem == SoldItem(inventory[u], index, nextFp)
                   newList  == IF shop.buy.resell
                               THEN addToInventory(sellList, soldItem, 0)
                               ELSE sellList
               IN /\ inventory' = [inventory EXCEPT ![u] = InventoryAfterSale(@, index)]
                  /\ money' = [money EXCEPT ![u] = updateCash(@, 1 * pricePerUnit)]
                  /\ exp' = [exp EXCEPT ![u] = ExpAfterSale(@, soldItem)]
                  /\ sellList' = newList
                  /\ nextFp' = IF getTemplate(item.id).stats.stackable
                               THEN nextFp + 1 ELSE nextFp
                  /\ events' = <<eventToUser(u, "success", "You sold 1x",
                                             soldItem.id, 1 * pricePerUnit),
                                 updateClient(u),
                                 dispatchToRoom(getSellList(shop, newList))>>
    /\ UNCHANGED <<shop, loaded>>

(* ---------------------------- Shop.resupply --------------------------- *)
\* the for loop of resupply with i iterations to go (i counts down to 0
\* inclusive): the set of its possible results.  threw: supply.items[index]
\* was undefined and reading its id raised a TypeError
\* mutant: a drawn candidate stays in the pool
RemainingPoolKeepsAll(pool, index, uniqueItems) == pool

\* if (supply.uniqueItems) supply.items.splice(index, 1)
RemainingPool(pool, index, uniqueItems) ==
    IF uniqueItems THEN splice(pool, index) ELSE pool

RECURSIVE ResupplyLoop(_, _, _, _, _)
ResupplyLoop(i, pool, list, fp, uniqueItems) ==
    IF i < 0
    THEN {[list |-> list, fp |-> fp, threw |-> FALSE]}
    ELSE UNION {
           IF ~HasIndex(pool, index)
           THEN {[list |-> list, fp |-> fp, threw |-> TRUE]}
           ELSE UNION {
                  ResupplyLoop(i - 1,
                               RemainingPool(pool, index, uniqueItems),
                               Append(list, [add(pool[index + 1].id, Undefined, fp)
                                               EXCEPT !.shopQuantity = q]),
                               fp + 1, uniqueItems)
                  : q \in dice(pool[index + 1].quantity[1], pool[index + 1].quantity[2]) }
           : index \in dice(0, Len(pool)) }

\* mutant: the finite entries are not removed before the pass
ResupplyResultsKeepsAll(sh, list, fp) ==
    UNION { ResupplyLoop(itemsToAdd, sh.supply.items, list, fp, sh.supply.uniqueItems)
            : itemsToAdd \in dice(sh.supply.numberOfItems[1], sh.supply.numberOfItems[2]) }

\* the results of resupply() on a shop with a supply configuration
ResupplyResults(sh, list, fp) ==
    LET kept == SelectSeq(list, LAMBDA item : item.shopQuantity = -1)
    IN UNION { ResupplyLoop(itemsToAdd, sh.supply.items, kept, fp, sh.supply.uniqueItems)
               : itemsToAdd \in dice(sh.supply.numberOfItems[1], sh.supply.numberOfItems[2]) }

\* fingerprints one resupply pass may need
ResupplyNeeds(sh) == IF sh.hasSupply THEN sh.supply.numberOfItems[2] + 1 ELSE 0

\* resupply(), called by the resupply timer
Resupply ==
    /\ loaded
    /\ nextFp + ResupplyNeeds(shop) <= MaxFp + 1
    /\ IF ~shop.hasSupply
       THEN UNCHANGED <<sellList, nextFp>>
       ELSE \E r \in ResupplyResults(shop, sellList, nextFp) :
              /\ sellList' = r.list
              /\ nextFp' = r.fp
    /\ events' = <<>>
    /\ UNCHANGED <<shop, loaded, money, exp, inventory, pending>>

(* ------------------------------ Shop.load ----------------------------- *)
\* load(): instantiate the configured sell list, or resupply an empty one
Load ==
    /\ ~loaded
    /\ loaded' = TRUE
    /\ IF ~shop.sell.enabled
       THEN UNCHANGED <<sellList, nextFp>>
       ELSE IF Len(sellList) = 0
            THEN IF ~shop.hasSupply
                 THEN UNCHANGED <<sellList, nextFp>>
                 ELSE \E r \in ResupplyResults(shop, sellList, nextFp) :
                        /\ sellList' = r.list
                        /\ nextFp' = r.fp
            ELSE /\ sellList' = [k \in 1..Len(sellList) |->
                        [add(sellList[k].id, Undefined, nextFp + k - 1) EXCEPT
                            !.shopQuantity = sellList[k].shopQuantity,
                            !.expRequired = IF sellList[k].expRequired = Undefined
                                            THEN 0 ELSE sellList[k].expRequired]]
                 /\ nextFp' = nextFp + Len(sellList)
    /\ events' = <<>>
    /\ UNCHANGED <<shop, money, exp, inventory, pending>>

(* --------------------------- configurations --------------------------- *)
\* an entry of a configured sell list, before load() instantiates it
Configured(itemId, quantity, expRequired) ==
    [id |-> itemId, fingerprint |-> 0, durability |-> Undefined,
     shopQuantity |-> quantity, expRequired |-> expRequired]

NoSupply == [items |-> <<>>, numberOfItems |-> <<0, 0>>, uniqueItems |-> FALSE]

\* a market that sells a configured list and resells what it buys
Market ==
    [sell |-> [enabled |-> TRUE, priceMultiplier |-> 1],
     list |-> <<Configured("bread", 1, Undefined), Configured("coke", -1, 2)>>,
     buy  |-> [enabled |-> TRUE, priceMultiplier |-> 1, list |-> {},
               ignoreType |-> {}, ignoreSubtype |-> {}, resell |-> TRUE],
     hasSupply |-> TRUE,
     supply |-> [items |-> <<[id |-> "bread", quantity |-> <<1, 2>>],
                             [id |-> "knife", quantity |-> <<1, 1>>]>>,
                 numberOfItems |-> <<0, 1>>, uniqueItems |-> TRUE]]

\* a dealer stocked by resupply only, buying a fixed list, not reselling
Dealer ==
    [sell |-> [enabled |-> TRUE, priceMultiplier |-> 2],
     list |-> <<>>,
     buy  |-> [enabled |-> TRUE, priceMultiplier |-> 1, list |-> {"coke", "knife"},
               ignoreType |-> {"weapon"}, ignoreSubtype |-> {}, resell |-> FALSE],
     hasSupply |-> TRUE,
     supply |-> [items |-> <<[id |-> "coke", quantity |-> <<1, 2>>]>>,
                 numberOfItems |-> <<0, 0>>, uniqueItems |-> FALSE]]

\* a closed shop: neither sells nor buys, no supply
Closed ==
    [sell |-> [enabled |-> FALSE, priceMultiplier |-> 1],
     list |-> <<Configured("bread", 1, Undefined)>>,
     buy  |-> [enabled |-> FALSE, priceMultiplier |-> 1, list |-> {},
               ignoreType |-> {}, ignoreSubtype |-> {}, resell |-> FALSE],
     hasSupply |-> FALSE,
     supply |-> NoSupply]

\* a bakery with one loaf left: sells only, no supply
Bakery ==
    [sell |-> [enabled |-> TRUE, priceMultiplier |-> 1],
     list |-> <<Configured("bread", 1, Undefined)>>,
     buy  |-> [enabled |-> FALSE, priceMultiplier |-> 1, list |-> {},
               ignoreType |-> {}, ignoreSubtype |-> {}, resell |-> FALSE],
     hasSupply |-> FALSE,
     supply |-> NoSupply]

\* a stall that sells at twice the template's price and buys without
\* reselling
Stall ==
    [sell |-> [enabled |-> TRUE, priceMultiplier |-> 2],
     list |-> <<Configured("bread", 2, Undefined)>>,
     buy  |-> [enabled |-> TRUE, priceMultiplier |-> 1, list |-> {"coke"},
               ignoreType |-> {}, ignoreSubtype |-> {}, resell |-> FALSE],
     hasSupply |-> FALSE,
     supply |-> NoSupply]

ShopConfigs == {Market, Dealer, Closed, Bakery}

\* a grocer whose supply never repeats an item within a pass
Grocer ==
    [sell |-> [enabled |-> TRUE, priceMultiplier |-> 1],
     list |-> <<Configured("coke", -1, Undefined), Configured("bread", 1, Undefined),
                Configured("knife", -1, Undefined)>>,
     buy  |-> [enabled |-> FALSE, priceMultiplier |-> 1, list |-> {},
               ignoreType |-> {}, ignoreSubtype |-> {}, resell |-> FALSE],
     hasSupply |-> TRUE,
     supply |-> [items |-> <<[id |-> "bread", quantity |-> <<1, 2>>],
                             [id |-> "coke", quantity |-> <<1, 1>>],
                             [id |-> "knife", quantity |-> <<1, 1>>]>>,
                 numberOfItems |-> <<0, 1>>, uniqueItems |-> TRUE]]

\* a kiosk stocked by resupply only, whose supply may repeat an item
Kiosk ==
    [sell |-> [enabled |-> TRUE, priceMultiplier |-> 1],
     list |-> <<>>,
     buy  |-> [enabled |-> FALSE, priceMultiplier |-> 1, list |-> {},
               ignoreType |-> {}, ignoreSubtype |-> {}, resell |-> FALSE],
     hasSupply |-> TRUE,
     supply |-> [items |-> <<[id |-> "bread", quantity |-> <<1, 2>>],
                             [id |-> "coke", quantity |-> <<1, 2>>]>>,
                 numberOfItems |-> <<1, 1>>, uniqueItems |-> FALSE]]

\* a corner shop whose supply offers as many candidates as a pass asks for
Corner ==
    [sell |-> [enabled |-> TRUE, priceMultiplier |-> 1],
     list |-> <<>>,
     buy  |-> [enabled |-> FALSE, priceMultiplier |-> 1, list |-> {},
               ignoreType |-> {}, ignoreSubtype |-> {}, resell |-> FALSE],
     hasSupply |-> TRUE,
     supply |-> [items |-> <<[id |-> "bread", quantity |-> <<1, 1>>]>>,
                 numberOfItems |-> <<1, 1>>, uniqueItems |-> TRUE]]

\* the shops whose resupply is followed
SupplyConfigs == {Grocer, Kiosk, Bakery, Corner}

\* an item a character holds when the game starts
Held(itemId, durability, fp) ==
    [id |-> itemId, fingerprint |-> fp, durability |-> durability,
     shopQuantity |-> Undefined, expRequired |-> Undefined]

(* --------------------- ItemManager: items on the ground --------------- *)
\* item names, a string being the sequence of its characters
ItemName(itemId) ==
    CASE itemId = "bread" -> <<"B", "r", "e", "a", "d">>
      [] itemId = "coke"  -> <<"C", "o", "k", "e">>
      [] itemId = "knife" -> <<"B", "r", "e", "a", "d", " ", "k", "n", "i", "f", "e">>

\* String.prototype.toLowerCase, on the letters that occur in upper case
LowerChar(ch) ==
    CASE ch = "A" -> "a" [] ch = "B" -> "b" [] ch = "C" -> "c" [] ch = "D" -> "d"
      [] ch = "E" -> "e" [] ch = "K" -> "k" [] ch = "O" -> "o" [] ch = "R" -> "r"
      [] ch = "L" -> "l" [] ch = "S" -> "s" [] ch = "U" -> "u" [] ch = "Y" -> "y"
      [] OTHER -> ch

toLowerCase(str) == [k \in 1..Len(str) |-> LowerChar(str[k])]

\* String.prototype.indexOf(sub): the first 0-based position of sub, or -1
indexOf(str, sub) ==
    LET at == {i \in 0..(Len(str) - Len(sub)) : SubSeq(str, i + 1, i + Len(sub)) = sub}
    IN IF at = {} THEN -1 ELSE CHOOSE i \in at : \A j \in at : i <= j

\* the locations (grid ids) of the map
Locations == {"city_1_1", "city_1_2"}

\* an item instance as drop and pickup see it: _id is the database id and
\* inventorySlot the slot it occupied ("" stands for null)
Instance(itemId, durability, dbId, inventorySlot) ==
    [id |-> itemId, name |-> ItemName(itemId), durability |-> durability,
     dbId |-> dbId, inventorySlot |-> inventorySlot]

\* Item.addDurability(amount)
addDurability(item, amount) == [item EXCEPT !.durability = @ + amount]

\* mutant: a dropped item is always appended, never stacked
dropNeverStacks(list, itemObject) ==
    Append(list, [itemObject EXCEPT !.dbId = ""])

\* ItemManager.drop(map_id, x, y, itemObject): the list of the location
\* after the call
drop(list, itemObject) ==
    LET cleared == [itemObject EXCEPT !.dbId = ""]
    IN IF getTemplate(itemObject.id).stats.stackable
       THEN LET itemIndex == findIndex(list, {item \in Elements(list) :
                                                 item.id = itemObject.id})
            IN IF itemIndex # -1
               THEN [list EXCEPT ![itemIndex + 1] =
                        addDurability(@, itemObject.durability)]
               ELSE Append(list, cleared)
       ELSE Append(list, [cleared EXCEPT !.inventorySlot = ""])

\* results of ItemManager.pickup and ItemManager.add
MsgNoItems  == "No items at the location"
MsgNotFound == "Item not found"

Failure(text) == [kind |-> "error", text |-> text, item |-> Instance("bread", 0, "", "")]

Returned(item) == [kind |-> "item", text |-> "", item |-> item]

\* drop returns the list of the location
ReturnedList == [kind |-> "list", text |-> "", item |-> Instance("bread", 0, "", "")]

ReturnedNull == [kind |-> "null", text |-> "", item |-> Instance("bread", 0, "", "")]

\* the entry pickup takes (0-based), -1 when the name matches none
pickupTarget(list, itemName) ==
    IF itemName # <<>>
    THEN LET query == toLowerCase(itemName)
             exact == findIndex(list, {obj \in Elements(list) :
                                         toLowerCase(obj.name) = query})
         IN IF exact # -1
            THEN exact
            ELSE findIndex(list, {obj \in Elements(list) :
                                    indexOf(toLowerCase(obj.name), query) # -1})
    ELSE 0

\* ItemManager.add as pickup uses it: a new instance without database id
addInstance(itemId, durability) ==
    LET item == add(itemId, durability, 0)
    IN IF item = NullItem
       THEN ReturnedNull
       ELSE Returned(Instance(item.id, item.durability, "", ""))

\* mutant: a stack is returned whole only when it is smaller than the
\* amount asked for
pickupStrictCompare(list, itemName, amount) ==
    IF Len(list) = 0
    THEN [list |-> list, result |-> Failure(MsgNoItems)]
    ELSE LET foundItemIndex == pickupTarget(list, itemName)
             foundItem      == list[foundItemIndex + 1]
         IN IF foundItemIndex = -1
            THEN [list |-> list, result |-> Failure(MsgNotFound)]
            ELSE IF ~getTemplate(foundItem.id).stats.stackable
            THEN [list |-> splice(list, foundItemIndex), result |-> Returned(foundItem)]
            ELSE IF amount # Undefined /\ foundItem.durability < amount
            THEN [list |-> splice(list, foundItemIndex), result |-> Returned(foundItem)]
            ELSE [list |-> [list EXCEPT ![foundItemIndex + 1].durability =
                               Minus(@, amount)],
                  result |-> addInstance(foundItem.id, amount)]

\* ItemManager.pickup(map_id, x, y, itemName, amount): the list of the
\* location after the call and the value returned
pickup(list, itemName, amount) ==
    IF Len(list) = 0
    THEN [list |-> list, result |-> Failure(MsgNoItems)]
    ELSE LET foundItemIndex == pickupTarget(list, itemName)
             foundItem      == list[foundItemIndex + 1]
         IN IF foundItemIndex = -1
            THEN [list |-> list, result |-> Failure(MsgNotFound)]
            ELSE IF ~getTemplate(foundItem.id).stats.stackable
            THEN [list |-> splice(list, foundItemIndex), result |-> Returned(foundItem)]
            ELSE IF LessEq(foundItem.durability, amount)
            THEN [list |-> splice(list, foundItemIndex), result |-> Returned(foundItem)]
            ELSE [list |-> [list EXCEPT ![foundItemIndex + 1].durability =
                               Minus(@, amount)],
                  result |-> addInstance(foundItem.id, amount)]

\* the instances a character may drop: new ones, and ones that are in the
\* database and in an inventory slot
DropInputs ==
    UNION {{Instance(itemId, durability, origin[1], origin[2]) :
               durability \in (IF getTemplate(itemId).stats.stackable
                               THEN {1, 2}
                               ELSE {getTemplate(itemId).stats.durability}),
               origin \in {<<"", "">>, <<"db1", "inv-0">>}}
           : itemId \in ItemIds}

\* the names a player may type: none, "BREAD", "co", "knife", "zz"
NameInputs ==
    {<<>>, <<"B", "R", "E", "A", "D">>, <<"c", "o">>,
     <<"k", "n", "i", "f", "e">>, <<"z", "z">>}

\* the item ids add() is called with; "ghost" has no template
AddIds == ItemIds \cup {"ghost"}

\* drop(map_id, x, y, itemObject) at location loc
Drop(loc, itemObject) ==
    /\ Len(dropped[loc]) < MaxGround
    /\ \A k \in 1..Len(dropped[loc]) :
          dropped[loc][k].id = itemObject.id =>
             dropped[loc][k].durability + itemObject.durability <= MaxStack
    /\ dropped' = [dropped EXCEPT ![loc] = drop(@, itemObject)]
    /\ result' = ReturnedList
    /\ UNCHANGED <<shopVars, authVars, chatVars, storeVars, heapVars, bootVars>>

\* pickup(map_id, x, y, itemName, amount) at location loc
Pickup(loc, itemName, amount) ==
    /\ LET done == pickup(dropped[loc], itemName, amount)
       IN /\ dropped' = [dropped EXCEPT ![loc] = done.list]
          /\ result' = done.result
    /\ UNCHANGED <<shopVars, authVars, chatVars, storeVars, heapVars, bootVars>>

\* add(itemId, {durability}) called on its own
Add(itemId, durability) ==
    /\ result' = addInstance(itemId, durability)
    /\ UNCHANGED <<dropped, shopVars, authVars, chatVars, storeVars, heapVars, bootVars>>

\* the ItemManager after its constructor: nothing on the ground
ItemsIdle ==
    /\ dropped = [loc \in Locations |-> <<>>]
    /\ result = ReturnedNull

(* --------------------- UserManager.authenticate ----------------------- *)
Sockets == {"s1", "s2", "s3"}

Accounts == {"a1", "a2"}

\* the payloads a client sends: none, a token signed for an account, a
\* token whose signature does not verify
Tokens == {"", "forged"} \cup Accounts

\* jwt.verify(payload, secret): err is set unless the token is signed
VerifyFails(token) == token \notin Accounts

\* the _id a verified token decodes to
Decoded(token) == token

\* user_id after a lookup that threw: the variable was never assigned
UndefinedId == "undefined"

\* socket.user of a socket that never authenticated
NoUser == ""

\* a socket with no authenticate() call in flight
IdleCall == [pc |-> "idle", decoded |-> "", user_id |-> UndefinedId]

\* socketManager.dispatchToSocket(socket, {type})
dispatchToSocket(sent, s, type) == [sent EXCEPT ![s] = type]

\* the sessions socketManager.logoutOutSession(socket, user_id) ends: the
\* registered sockets of the account other than the caller
PriorSessions(s, user_id) ==
    {t \in clients : t # s /\ socketUser[t] = user_id}

\* socketManager.add(socket)
addClient(registry, s) == registry \cup {s}

\* authenticate(socket, action) up to the first await: the payload test and
\* jwt.verify
Authenticate(s, token) ==
    /\ auth[s].pc = "idle"
    /\ s \notin clients
    /\ IF token = ""
       THEN UNCHANGED <<auth, notices>>
       ELSE IF VerifyFails(token)
       THEN /\ notices' = dispatchToSocket(notices, s, "USER_AUTHENTICATE_ERROR")
            /\ UNCHANGED auth
       ELSE /\ auth' = [auth EXCEPT ![s] = [pc |-> "lookup", decoded |-> Decoded(token),
                                            user_id |-> UndefinedId]]
            /\ UNCHANGED notices
    /\ UNCHANGED <<socketUser, clients, shopVars, itemVars, chatVars, storeVars, heapVars, bootVars>>

\* UserModel.findOneAsync settles: a user, no user, or an error that the
\* catch block hands to Game.onError; unless no user was found the callback
\* goes on and calls logoutOutSession
LookupSettles(s, outcome) ==
    /\ auth[s].pc = "lookup"
    /\ IF outcome = "none"
       THEN /\ notices' = dispatchToSocket(notices, s, "USER_AUTHENTICATE_ERROR")
            /\ auth' = [auth EXCEPT ![s] = IdleCall]
       ELSE /\ auth' = [auth EXCEPT ![s].pc = "logout",
                                    ![s].user_id = IF outcome = "found"
                                                   THEN auth[s].decoded
                                                   ELSE UndefinedId]
            /\ UNCHANGED notices
    /\ UNCHANGED <<socketUser, clients, shopVars, itemVars, chatVars, storeVars, heapVars, bootVars>>

\* logoutOutSession ends the prior sessions of the account and resolves
LogoutResolves(s) ==
    /\ auth[s].pc = "logout"
    /\ LET prior == PriorSessions(s, auth[s].user_id)
       IN /\ clients' = clients \ prior
          /\ socketUser' = [t \in Sockets |-> IF t \in prior THEN NoUser ELSE socketUser[t]]
          /\ notices' = [t \in Sockets |-> IF t \in prior THEN "CHARACTER_REMOTE_LOGOUT"
                                           ELSE notices[t]]
    /\ auth' = [auth EXCEPT ![s].pc = "resolved"]
    /\ UNCHANGED <<shopVars, itemVars, chatVars, storeVars, heapVars, bootVars>>

\* logoutOutSession rejects: the catch block hands the error to Game.onError
\* and the callback goes on
LogoutRejects(s) ==
    /\ auth[s].pc = "logout"
    /\ auth' = [auth EXCEPT ![s].pc = "caught"]
    /\ UNCHANGED <<socketUser, clients, notices, shopVars, itemVars, chatVars, storeVars, heapVars, bootVars>>

\* the rest of the callback: socket.user, socketManager.add, the success
\* event
Register(s) ==
    /\ auth[s].pc \in {"resolved", "caught"}
    /\ socketUser' = [socketUser EXCEPT ![s] = auth[s].user_id]
    /\ clients' = addClient(clients, s)
    /\ notices' = dispatchToSocket(notices, s, "USER_AUTHENTICATE_SUCCESS")
    /\ auth' = [auth EXCEPT ![s] = IdleCall]
    /\ UNCHANGED <<shopVars, itemVars, chatVars, storeVars, heapVars, bootVars>>

\* the client of a registered socket disconnects
Disconnect(s) ==
    /\ s \in clients
    /\ clients' = clients \ {s}
    /\ socketUser' = [socketUser EXCEPT ![s] = NoUser]
    /\ UNCHANGED <<auth, notices, shopVars, itemVars, chatVars, storeVars, heapVars, bootVars>>

\* no socket is connected
AuthIdle ==
    /\ auth = [s \in Sockets |-> IdleCall]
    /\ socketUser = [s \in Sockets |-> NoUser]
    /\ clients = {}
    /\ notices = [s \in Sockets |-> ""]

(* ----------------------- live prices, persistence --------------------- *)
\* the priceRange of the templates that have one
PriceRange == [bread |-> <<4, 6>>, coke |-> <<3, 4>>]

\* the prices one updatePrices() may draw: shufflePrice() redraws the price
\* of a template within its priceRange and leaves the others
Shuffled(current) ==
    {draw \in [ItemIds -> 3..6] :
        \A itemId \in ItemIds :
           IF itemId \in DOMAIN PriceRange
           THEN /\ draw[itemId] >= PriceRange[itemId][1]
                /\ draw[itemId] <= PriceRange[itemId][2]
           ELSE draw[itemId] = current[itemId]}

\* ItemManager.updatePrices()
UpdatePrices ==
    /\ prices' \in Shuffled(prices)
    /\ reshuffled' = TRUE
    /\ UNCHANGED <<held, stored, reloaded>>

\* null: no item, no document
NoItem == [id |-> ""]

\* the stats a modifier may overwrite, and the values given to them
ModifierFields == {"price", "durability"}

ModifierValues == {1, 5}

Modifiers == UNION {[fields -> ModifierValues] : fields \in SUBSET ModifierFields}

\* new Item(Game, itemData, modifiers): the modifiers overwrite the stats
Item(itemData, modifiers) ==
    [itemData EXCEPT !.stats =
        [field \in DOMAIN itemData.stats |->
            IF field \in DOMAIN modifiers THEN modifiers[field]
            ELSE itemData.stats[field]]]

\* item.getModifiers(): the stats of the instance that differ from the
\* template's
getModifiers(item) ==
    LET stats == [getTemplate(item.id).stats EXCEPT !.price = stats_price(item.id)]
        fields == {field \in ModifierFields : item.stats[field] # stats[field]}
    IN  [field \in fields |-> item.stats[field]]

\* ItemManager.add(itemId, modifiers, dbId) with all its stats: a copy of
\* the template and of its stats, the modifiers applied, _id set
addItem(itemId, modifiers, dbId) ==
    IF ~HasTemplate(itemId)
    THEN NoItem
    ELSE LET template == getTemplate(itemId)
             itemData == [id |-> template.id,
                          stats |-> [template.stats EXCEPT
                                        !.price = stats_price(itemId)],
                          _id |-> "", inventorySlot |-> ""]
         IN  [Item(itemData, modifiers) EXCEPT !._id = dbId]

\* mutant: the document is created without the item's modifiers
dbCreateNoModifiers(item) ==
    [id |-> "db1", item_id |-> item.id, modifiers |-> <<>>,
     inventorySlot |-> item.inventorySlot]

\* ItemManager.dbCreate(character_id, item): the new document
dbCreate(item) ==
    [id |-> "db1", item_id |-> item.id, modifiers |-> getModifiers(item),
     inventorySlot |-> item.inventorySlot]

\* an item is made and put in an inventory slot
Create(itemId, modifiers) ==
    /\ held' = LET item == addItem(itemId, modifiers, "")
               IN  IF item = NoItem THEN item
                   ELSE [item EXCEPT !.inventorySlot = "inv-0"]
    /\ stored' = NoItem
    /\ reloaded' = NoItem
    /\ reshuffled' = FALSE
    /\ UNCHANGED prices

\* ItemManager.dbSave(character_id, item): dbLoad finds the document of an
\* item with an _id; without one the document is created
DbSave ==
    /\ held # NoItem
    /\ IF held._id = ""
       THEN /\ stored' = dbCreate(held)
            /\ held' = [held EXCEPT !._id = dbCreate(held).id]
       ELSE /\ stored' = [stored EXCEPT !.modifiers = getModifiers(held),
                                        !.inventorySlot = held.inventorySlot]
            /\ UNCHANGED held
    /\ UNCHANGED <<prices, reloaded, reshuffled>>

\* ItemManager.loadCharacterInventory(character), for the one document
LoadCharacterInventory ==
    /\ stored # NoItem
    /\ reloaded' = [addItem(stored.item_id, stored.modifiers, stored.id)
                       EXCEPT !.inventorySlot = stored.inventorySlot]
    /\ UNCHANGED <<prices, held, stored, reshuffled>>

\* the templates as loaded, nothing made or stored
StoreIdle ==
    /\ prices = [itemId \in ItemIds |-> templates[itemId].stats.price]
    /\ held = NoItem
    /\ stored = NoItem
    /\ reloaded = NoItem
    /\ reshuffled = FALSE

(* ------------------------ chat commands, cooldown ---------------------- *)
\* the configured default of the 'chat' cooldown, in game ticks
ChatDefault == 2

\* cooldownManager.ticksLeft(character, 'chat'): 0 when no entry is active
ticksLeft(cd, character) == cd[character]

\* cooldownManager.add(character, 'chat', explicitDuration, useDefault);
\* 0 stands for null.  Without a duration and without useDefault: no-op
cooldownAdd(cd, character, explicitDuration, useDefault) ==
    IF explicitDuration # 0
    THEN [cd EXCEPT ![character] = explicitDuration]
    ELSE IF useDefault
         THEN [cd EXCEPT ![character] = ChatDefault]
         ELSE cd

\* what the socket manager or the game sends: a chat message or an error
ChatMessage(via, to, from, type, text) ==
    [kind |-> "CHAT_MESSAGE", via |-> via, to |-> to, from |-> from,
     type |-> type, text |-> text, ticks |-> 0, command |-> "", param |-> 0]

ChatError(to, text, ticks) ==
    [kind |-> "error", via |-> "user", to |-> to, from |-> "",
     type |-> "", text |-> text, ticks |-> ticks, command |-> "", param |-> 0]

MsgWait      == "You must wait another"
MsgNoMessage == "You must specify a message to send."

\* mutant: the cooldown is added without useDefault
checkChatCooldownNoDefault(cd, character, publish) ==
    LET left == ticksLeft(cd, character)
    IN  IF left # 0
        THEN [cooldown |-> cd, added |-> FALSE,
              events |-> <<ChatError(character, MsgWait, left)>>]
        ELSE [cooldown |-> cooldownAdd(cd, character, 0, FALSE), added |-> TRUE,
              events |-> publish]

\* mutant: a rejected command restarts the cooldown
checkChatCooldownRestarts(cd, character, publish) ==
    LET left == ticksLeft(cd, character)
    IN  IF left # 0
        THEN [cooldown |-> cooldownAdd(cd, character, 0, TRUE), added |-> TRUE,
              events |-> <<ChatError(character, MsgWait, left)>>]
        ELSE [cooldown |-> cooldownAdd(cd, character, 0, TRUE), added |-> TRUE,
              events |-> publish]

\* mutant: the callback runs whatever ticksLeft says
checkChatCooldownUngated(cd, character, publish) ==
    [cooldown |-> cooldownAdd(cd, character, 0, TRUE), added |-> TRUE,
     events |-> publish]

\* checkChatCooldown(character, Game, callback): the cooldown afterwards,
\* whether add was called, and what was sent (publish is what callback sends)
checkChatCooldown(cd, character, publish) ==
    LET left == ticksLeft(cd, character)
    IN  IF left # 0
        THEN [cooldown |-> cd, added |-> FALSE,
              events |-> <<ChatError(character, MsgWait, left)>>]
        ELSE [cooldown |-> cooldownAdd(cd, character, 0, TRUE), added |-> TRUE,
              events |-> publish]

\* the messages a client types: none, a short one, one over 500 characters
Messages == {"", "hi", "long"}

MessageLength(message) ==
    CASE message = ""     -> 0
      [] message = "hi"   -> 2
      [] message = "long" -> 501

\* the names a client gives as whisper target: none, nobody online, a player
TargetInputs == {"", "nobody"} \cup Users

\* mutant: the whisper's Message parameter is optional
RegistryOptionalMessage ==
    [global  |-> [names  |-> {"/global", "/g", "/yell"},
                  params |-> <<<<"required", "minlen", "maxlen">>>>],
     say     |-> [names  |-> {"/say", "/s"},
                  params |-> <<<<"required", "minlen", "maxlen">>>>],
     whisper |-> [names  |-> {"/whisper", "/w", "/tell", "/pm"},
                  params |-> <<<<"required", "player">>, <<"maxlen">>>>]]

\* module.exports: command, aliases and the rules of each parameter
Registry ==
    [global  |-> [names  |-> {"/global", "/g", "/yell"},
                  params |-> <<<<"required", "minlen", "maxlen">>>>],
     say     |-> [names  |-> {"/say", "/s"},
                  params |-> <<<<"required", "minlen", "maxlen">>>>],
     whisper |-> [names  |-> {"/whisper", "/w", "/tell", "/pm"},
                  params |-> <<<<"required", "player">>,
                               <<"required", "minlen", "maxlen">>>>]]

\* the command names a client types
CommandNames == {"/global", "/yell", "/say", "/whisper", "/w", "/tell", "/pm", "/dance"}

\* the registry's lookup by command name or alias; "" when unknown
resolve(name) ==
    IF \E key \in DOMAIN Registry : name \in Registry[key].names
    THEN CHOOSE key \in DOMAIN Registry : name \in Registry[key].names
    ELSE ""

\* one rule applied to one parameter: the error kind, "" when it passes
ruleError(rule, value) ==
    CASE rule = "required" -> IF value = "" THEN "MissingParam" ELSE ""
      [] rule = "minlen"   -> IF MessageLength(value) < 1 THEN "InvalidLength" ELSE ""
      [] rule = "maxlen"   -> IF MessageLength(value) > 500 THEN "InvalidLength" ELSE ""
      [] rule = "player"   -> IF value \notin Users THEN "NotFound" ELSE ""

\* the rules of one parameter, left to right: the first error
rulesError(rules, value) ==
    IF \E k \in 1..Len(rules) : ruleError(rules[k], value) # ""
    THEN ruleError(rules[CHOOSE k \in 1..Len(rules) :
                      /\ ruleError(rules[k], value) # ""
                      /\ \A j \in 1..(k - 1) : ruleError(rules[j], value) = ""], value)
    ELSE ""

\* the parameters in order, a missing one being empty: the position of
\* the first one that fails a rule, 0 when all pass
failing(params, values) ==
    IF \E k \in 1..Len(params) : rulesError(params[k], values[k]) # ""
    THEN CHOOSE k \in 1..Len(params) :
            /\ rulesError(params[k], values[k]) # ""
            /\ \A j \in 1..(k - 1) : rulesError(params[j], values[j]) = ""
    ELSE 0

\* the error kind of the command line, "" when it is valid
validate(params, values) ==
    IF failing(params, values) = 0
    THEN ""
    ELSE rulesError(params[failing(params, values)], values[failing(params, values)])

\* the error sent for a command line that is not run
CommandError(to, text, name, param) ==
    [kind |-> "error", via |-> "user", to |-> to, from |-> "", type |-> "",
     text |-> text, ticks |-> 0, command |-> name, param |-> param]

\* the history of add: an add restarts the count of ticks
noteAdd(since, character, added) ==
    IF added THEN [since EXCEPT ![character] = 0] ELSE since

\* what a command line does before it returns: the cooldowns afterwards,
\* whether add was called, what was sent, and the lookup it waits for
Outcome(cd, added, sent, queued) ==
    [cooldown |-> cd, added |-> added, events |-> sent, queued |-> queued]

\* cmdGlobal, cmdSay up to characterManager.get: params.join(' ').trim()
\* is the message
cmdChat(cd, u, type, message) ==
    IF MessageLength(message) = 0
    THEN Outcome(cd, FALSE, <<ChatError(u, MsgNoMessage, 0)>>, {})
    ELSE Outcome(cd, FALSE, <<>>, {[user |-> u, type |-> type, message |-> message]})

\* mutant: the whisper is echoed to the sender only
cmdWhisperEchoOnly(cd, player, whisperTarget, message) ==
    LET done == checkChatCooldown(cd, player,
                    <<ChatMessage("socket", player, whisperTarget, "whisper-out", message)>>)
    IN  Outcome(done.cooldown, done.added, done.events, {})

\* cmdWhisper(socket, player, command, params, cmdObject, Game): params[0]
\* is the resolved target, params[1] the message
cmdWhisper(cd, player, whisperTarget, message) ==
    LET done == checkChatCooldown(cd, player,
                    <<ChatMessage("socket", player, whisperTarget, "whisper-out", message),
                      ChatMessage("user", whisperTarget, player, "whisper-in", message)>>)
    IN  Outcome(done.cooldown, done.added, done.events, {})

\* a command line of a client: the registry lookup, the parameters' rules,
\* then the definition's method
parse(cd, u, name, target, message) ==
    LET key    == resolve(name)
        values == IF key = "whisper" THEN <<target, message>> ELSE <<message>>
    IN  IF key = ""
        THEN Outcome(cd, FALSE, <<CommandError(u, "UnknownCommand", name, 0)>>, {})
        ELSE IF failing(Registry[key].params, values) # 0
             THEN Outcome(cd, FALSE,
                          <<CommandError(u, validate(Registry[key].params, values), name,
                                         failing(Registry[key].params, values))>>, {})
             ELSE IF key = "whisper"
                  THEN cmdWhisper(cd, u, target, message)
                  ELSE cmdChat(cd, u, IF key = "global" THEN "global" ELSE "local",
                               message)

\* a client sends a command line
Command(u, name, target, message) ==
    /\ \E done \in {parse(cooldown, u, name, target, message)} :
           /\ done.queued # {} => BagCardinality(chatPending) < MaxPending
           /\ cooldown' = done.cooldown
           /\ sinceAdd' = noteAdd(sinceAdd, u, done.added)
           /\ chatEvents' = done.events
           /\ chatPending' = chatPending (+) SetToBag(done.queued)
    /\ UNCHANGED <<shopVars, authVars, itemVars, storeVars, heapVars, bootVars>>

\* the .then() callback of cmdGlobal and cmdSay
ChatHandler(c) ==
    /\ c \in BagToSet(chatPending)
    /\ LET done == checkChatCooldown(cooldown, c.user,
                       <<ChatMessage(IF c.type = "global" THEN "server" ELSE "room",
                                     "", c.user, c.type, c.message)>>)
       IN  /\ cooldown' = done.cooldown
           /\ sinceAdd' = noteAdd(sinceAdd, c.user, done.added)
           /\ chatEvents' = done.events
    /\ chatPending' = chatPending (-) SetToBag({c})
    /\ UNCHANGED <<shopVars, authVars, itemVars, storeVars, heapVars, bootVars>>

\* characterManager.get rejects: .catch(() => {})
ChatLookupRejects(c) ==
    /\ c \in BagToSet(chatPending)
    /\ chatPending' = chatPending (-) SetToBag({c})
    /\ chatEvents' = <<>>
    /\ UNCHANGED <<cooldown, sinceAdd>>
    /\ UNCHANGED <<shopVars, authVars, itemVars, storeVars, heapVars, bootVars>>

\* a game tick: the tracker decrements every active entry and evicts the
\* entries that reach zero
Tick ==
    /\ cooldown' = [u \in Users |-> IF cooldown[u] > 0 THEN cooldown[u] - 1 ELSE 0]
    /\ sinceAdd' = [u \in Users |->
                      IF sinceAdd[u] < ChatDefault THEN sinceAdd[u] + 1 ELSE sinceAdd[u]]
    /\ chatEvents' = <<>>
    /\ UNCHANGED chatPending
    /\ UNCHANGED <<shopVars, authVars, itemVars, storeVars, heapVars, bootVars>>

\* nobody has chatted
ChatIdle ==
    /\ cooldown = [u \in Users |-> 0]
    /\ sinceAdd = [u \in Users |-> ChatDefault]
    /\ chatPending = EmptyBag
    /\ chatEvents = <<>>

(* ---------------- templates and instances as objects ------------------ *)
\* the stats object of a template, by identity
TemplateRef(itemId) ==
    CASE itemId = "bread" -> 1
      [] itemId = "coke"  -> 2
      [] itemId = "knife" -> 3

TemplateRefs == {TemplateRef(itemId) : itemId \in ItemIds}

\* the stats objects instances may own
ObjectRefs == (Cardinality(ItemIds) + 1)..(Cardinality(ItemIds) + MaxObjects)

\* a stats object nothing refers to
NoStats == [price |-> 0, durability |-> 0, stackable |-> FALSE]

\* the stats objects the instances of two lists refer to
Referenced(held1, held2) ==
    {held1[k].stats : k \in 1..Len(held1)} \cup {held2[k].stats : k \in 1..Len(held2)}

\* the stats objects that are free to be allocated
FreeRefs(st, held1, held2) == ObjectRefs \ Referenced(held1, held2)

\* what the garbage collector leaves: stats nothing refers to are gone
Collected(st, held1, held2) ==
    [ref \in DOMAIN st |->
        IF ref \in ObjectRefs \ Referenced(held1, held2) THEN NoStats ELSE st[ref]]

\* mutant: the instance shares the stats object of its template
copyStatsShared(free, itemId) == TemplateRef(itemId)

\* itemData.stats = {...template.stats}: a new stats object
copyStats(free, itemId) == CHOOSE ref \in free : \A other \in free : ref <= other

\* ItemManager.add(itemId, {durability}) on objects: the new instance and
\* the stats objects after the modifier was written to the instance's stats
addObject(st, free, itemId, durability) ==
    LET ref == copyStats(free, itemId)
        copied == [st EXCEPT ![ref] = st[TemplateRef(itemId)]]
    IN [item |-> [id |-> itemId, stats |-> ref],
        statsOf |-> IF durability = Undefined THEN copied
                    ELSE [copied EXCEPT ![ref].durability = durability]]

\* add(itemId, modifiers): the new instance goes to the character
HeapAdd(itemId, durability) ==
    /\ Len(hand) < MaxHand
    /\ FreeRefs(statsOf, hand, ground) # {}
    /\ LET made == addObject(statsOf, FreeRefs(statsOf, hand, ground), itemId, durability)
       IN /\ hand' = Append(hand, made.item)
          /\ statsOf' = made.statsOf
    /\ UNCHANGED ground

\* drop(map_id, x, y, itemObject) of the k-th instance held: a stackable
\* instance is merged into the ground entry of its id, any other instance
\* is pushed onto the list as the object it is
HeapDrop(k) ==
    /\ k \in 1..Len(hand)
    /\ LET itemObject == hand[k]
           left == splice(hand, k - 1)
           same == {g \in 1..Len(ground) : ground[g].id = itemObject.id}
       IN IF statsOf[itemObject.stats].stackable /\ same # {}
          THEN LET g == CHOOSE g \in same : \A other \in same : g <= other
                   merged == [statsOf EXCEPT ![ground[g].stats].durability =
                                 @ + statsOf[itemObject.stats].durability]
               IN /\ merged[ground[g].stats].durability <= MaxStack
                  /\ ground' = ground
                  /\ hand' = left
                  /\ statsOf' = Collected(merged, left, ground)
          ELSE /\ Len(ground) < MaxGround
               /\ ground' = Append(ground, itemObject)
               /\ hand' = left
               /\ statsOf' = statsOf

\* pickup(map_id, x, y, itemName, amount) of the g-th ground entry: the
\* entry itself, or a new instance of amount units taken from the stack
HeapPickup(g, amount) ==
    /\ g \in 1..Len(ground)
    /\ Len(hand) < MaxHand
    /\ LET foundItem == ground[g]
       IN IF ~statsOf[foundItem.stats].stackable
             \/ statsOf[foundItem.stats].durability <= amount
          THEN /\ ground' = splice(ground, g - 1)
               /\ hand' = Append(hand, foundItem)
               /\ statsOf' = statsOf
          ELSE /\ FreeRefs(statsOf, hand, ground) # {}
               /\ LET less == [statsOf EXCEPT ![foundItem.stats].durability = @ - amount]
                      made == addObject(less, FreeRefs(statsOf, hand, ground),
                                        foundItem.id, amount)
                  IN /\ hand' = Append(hand, made.item)
                     /\ statsOf' = made.statsOf
               /\ ground' = ground

\* sellItem of the k-th instance held, to a shop that does not resell: one
\* unit of a stack is made into a new instance and taken off the stack
HeapSell(k) ==
    /\ k \in 1..Len(hand)
    /\ LET item == hand[k]
       IN IF statsOf[item.stats].stackable
          THEN /\ FreeRefs(statsOf, hand, ground) # {}
               /\ LET made == addObject(statsOf, FreeRefs(statsOf, hand, ground),
                                        item.id, 1)
                      less == [made.statsOf EXCEPT ![item.stats].durability = @ - 1]
                      left == IF less[item.stats].durability <= 0
                              THEN splice(hand, k - 1) ELSE hand
                  IN /\ hand' = left
                     /\ statsOf' = Collected(less, left, ground)
          ELSE /\ hand' = splice(hand, k - 1)
               /\ statsOf' = Collected(statsOf, splice(hand, k - 1), ground)
    /\ UNCHANGED ground

\* updatePrices(): shufflePrice() on every template
HeapUpdatePrices ==
    /\ \E draw \in Shuffled([itemId \in ItemIds |-> statsOf[TemplateRef(itemId)].price]) :
          statsOf' = [ref \in DOMAIN statsOf |->
                        IF \E itemId \in ItemIds : ref = TemplateRef(itemId)
                        THEN [statsOf[ref] EXCEPT !.price =
                                 draw[CHOOSE itemId \in ItemIds : ref = TemplateRef(itemId)]]
                        ELSE statsOf[ref]]
    /\ UNCHANGED <<hand, ground>>

\* the templates as loaded, no instance made
HeapIdle ==
    /\ statsOf = [ref \in TemplateRefs \cup ObjectRefs |->
                    IF ref \in TemplateRefs
                    THEN LET itemId == CHOOSE itemId \in ItemIds : ref = TemplateRef(itemId)
                         IN [price |-> templates[itemId].stats.price,
                             durability |-> templates[itemId].stats.durability,
                             stackable |-> templates[itemId].stats.stackable]
                    ELSE NoStats]
    /\ hand = <<>>
    /\ ground = <<>>

(* ------------------------- the price of an item ----------------------- *)
\* what a call settles with: a value, or a rejection
Resolved(value) == [settled |-> "resolved", value |-> value]

Rejects == [settled |-> "rejected", value |-> 0]

\* ItemManager.getItemPrice(itemId): null without template, the number
\* template.stats.price otherwise; neither has a then method
ItemPrice(itemId) ==
    IF ~HasTemplate(itemId)
    THEN [thenable |-> FALSE, isNull |-> TRUE, value |-> 0]
    ELSE [thenable |-> FALSE, isNull |-> FALSE, value |-> stats_price(itemId)]

\* the names of the two sides of a shop
SideSell == <<"s", "e", "l", "l">>

SideBuy == <<"b", "u", "y">>

\* Shop.getItemPrice(itemId, priceType): the executor lowers priceType and
\* calls .then on what ItemManager.getItemPrice returned; a TypeError thrown
\* in the executor rejects the promise
ShopItemPrice(sh, itemId, priceType) ==
    LET side      == toLowerCase(priceType)
        itemPrice == ItemPrice(itemId)
    IN IF ~itemPrice.thenable THEN Rejects
       ELSE IF side \notin {SideSell, SideBuy} THEN Rejects
       ELSE Resolved(itemPrice.value *
                     (IF side = SideSell THEN sh.sell.priceMultiplier
                      ELSE sh.buy.priceMultiplier))

(* ------------------------------ Game.init ------------------------------ *)
\* the loads Game.init awaits, in the order of its statements
Stages == <<"items", "maps", "factions">>

\* mutant: the server listens once the maps are loaded
AfterStageSkipsFactions(stage) ==
    IF stage = "items" THEN "maps" ELSE "done"

\* the statement that follows the await of a stage
AfterStage(stage) ==
    CASE stage = "items"    -> "maps"
      [] stage = "maps"     -> "factions"
      [] stage = "factions" -> "done"

\* the counts a load may resolve with
LoadCounts == 0..MaxCount

\* the promise of the load that is awaited resolves: its count is logged
\* and init goes on; after the last load it calls socketManager.listen()
\* and setupAutosave(), which schedules the interval when autosave is
\* enabled
LoadResolves(count) ==
    /\ bootPc \in {"items", "maps", "factions"}
    /\ bootLog' = Append(bootLog, [stage |-> bootPc, count |-> count])
    /\ bootPc' = AfterStage(bootPc)
    /\ listening' = (bootPc' = "done")
    /\ autosave' = (bootPc' = "done" /\ autosaveEnabled)
    /\ UNCHANGED <<autosaveEnabled, saves>>

\* the promise of the load that is awaited rejects: init() rejects and
\* none of its remaining statements runs
LoadRejects ==
    /\ bootPc \in {"items", "maps", "factions"}
    /\ bootPc' = "failed"
    /\ UNCHANGED <<bootLog, listening, autosave, autosaveEnabled, saves>>

\* the interval set by setupAutosave fires: characterManager.saveAll()
AutosaveFires ==
    /\ autosave
    /\ saves < MaxSaves
    /\ saves' = saves + 1
    /\ UNCHANGED <<bootPc, bootLog, listening, autosave, autosaveEnabled>>

\* the Game constructor has called init(), which awaits the first load
BootStart ==
    /\ bootPc = "items"
    /\ bootLog = <<>>
    /\ listening = FALSE
    /\ autosave = FALSE
    /\ saves = 0

BootIdle == BootStart /\ autosaveEnabled = FALSE

(* ------------------------------ behaviour ----------------------------- *)
\* the fingerprints a client names: those of the items it holds (one goes
\* stale when an earlier sale of the same item runs first)
KnownFingerprints(u) ==
    {inventory[u][k].fingerprint : k \in 1..Len(inventory[u])}

\* the item ids a client asks to buy
BuyIds == {"bread", "coke"}

Init ==
    /\ shop \in ShopConfigs
    /\ sellList = shop.list
    /\ loaded = FALSE
    /\ money = [u \in Users |-> IF u = "u1" THEN 10 ELSE 4]
    /\ exp = [u \in Users |-> 0]
    /\ inventory = [u \in Users |->
                      IF u = "u1" THEN <<Held("coke", 2, 1), Held("knife", 9, 2)>>
                      ELSE <<Held("bread", 1, 3)>>]
    /\ pending = EmptyBag
    /\ nextFp = 4
    /\ events = <<>>
    /\ AuthIdle
    /\ ItemsIdle
    /\ ChatIdle
    /\ StoreIdle
    /\ HeapIdle
    /\ BootIdle

Next ==
    \/ Load /\ UNCHANGED <<authVars, itemVars, chatVars, storeVars, heapVars, bootVars>>
    \/ \E u \in Users, index \in IndexInputs, itemId \in BuyIds :
          BuyCall(u, index, itemId) /\ UNCHANGED <<authVars, itemVars, chatVars, storeVars, heapVars, bootVars>>
    \/ \E c \in BagToSet(pending) : BuyHandler(c) /\ UNCHANGED <<authVars, itemVars, chatVars, storeVars, heapVars, bootVars>>
    \/ \E u \in Users : \E fp \in KnownFingerprints(u) :
          SellCall(u, fp) /\ UNCHANGED <<authVars, itemVars, chatVars, storeVars, heapVars, bootVars>>
    \/ \E c \in BagToSet(pending) : SellHandler(c) /\ UNCHANGED <<authVars, itemVars, chatVars, storeVars, heapVars, bootVars>>
    \/ \E c \in BagToSet(pending) : LookupRejects(c) /\ UNCHANGED <<authVars, itemVars, chatVars, storeVars, heapVars, bootVars>>
    \/ Resupply /\ UNCHANGED <<authVars, itemVars, chatVars, storeVars, heapVars, bootVars>>

Spec == Init /\ [][Next]_vars

(* ------------------- Shop.addToInventory on its own ------------------- *)
\* an item on a sell list or on its way to one
Stock(itemId, durability, quantity) ==
    [id |-> itemId, fingerprint |-> 0, durability |-> durability,
     shopQuantity |-> quantity, expRequired |-> Undefined]

\* the durabilities an instance of an item may have
Durabilities(itemId) ==
    IF itemId = "knife" THEN {9, 5} ELSE IF itemId = "coke" THEN {1, 2} ELSE {1}

\* sell-list entries: infinite (-1) or with stock left
StockEntries ==
    UNION {{Stock(itemId, durability, quantity) :
               durability \in Durabilities(itemId),
               quantity \in {-1} \cup 1..MaxQuantity}
           : itemId \in ItemIds}

\* the instances handed to addToInventory
MergeItems ==
    UNION {{Stock(itemId, durability, Undefined) : durability \in Durabilities(itemId)}
           : itemId \in ItemIds}

\* the amounts handed to addToInventory; 0 stands for null
MergeAmounts == {0, 1, 2}

\* the sell lists of at most MaxMergeLen entries
MergeLists == UNION {[1..n -> StockEntries] : n \in 0..MaxMergeLen}

\* this.addToInventory(itemObj, amount)
Merge(itemObj, amount) ==
    /\ Len(sellList) <= MaxMergeLen
    /\ \A k \in 1..Len(sellList) : sellList[k].shopQuantity <= MaxQuantity
    /\ sellList' = addToInventory(sellList, itemObj, amount)
    /\ UNCHANGED <<shop, loaded, money, exp, inventory, pending, nextFp, events>>
    /\ UNCHANGED <<authVars, itemVars, chatVars, storeVars, heapVars, bootVars>>

MergeInit ==
    /\ shop = Market
    /\ sellList \in MergeLists
    /\ loaded = TRUE
    /\ money = [u \in Users |-> 0]
    /\ exp = [u \in Users |-> 0]
    /\ inventory = [u \in Users |-> <<>>]
    /\ pending = EmptyBag
    /\ nextFp = 1
    /\ events = <<>>
    /\ AuthIdle
    /\ ItemsIdle
    /\ ChatIdle
    /\ StoreIdle
    /\ HeapIdle
    /\ BootIdle

MergeNext == \E itemObj \in MergeItems, amount \in MergeAmounts : Merge(itemObj, amount)

MergeSpec == MergeInit /\ [][MergeNext]_vars

(* ---------------------- Shop.resupply on its own ----------------------- *)
\* a shop that is loaded and then resupplied by its timer
ResupplyInit ==
    /\ shop \in SupplyConfigs
    /\ sellList = shop.list
    /\ loaded = FALSE
    /\ money = [u \in Users |-> 0]
    /\ exp = [u \in Users |-> 0]
    /\ inventory = [u \in Users |-> <<>>]
    /\ pending = EmptyBag
    /\ nextFp = 1
    /\ events = <<>>
    /\ AuthIdle
    /\ ItemsIdle
    /\ ChatIdle
    /\ StoreIdle
    /\ HeapIdle
    /\ BootIdle

ResupplyNext ==
    \/ Load /\ UNCHANGED <<authVars, itemVars, chatVars, storeVars, heapVars, bootVars>>
    \/ Resupply /\ UNCHANGED <<authVars, itemVars, chatVars, storeVars, heapVars, bootVars>>

ResupplySpec == ResupplyInit /\ [][ResupplyNext]_vars

(* ----------------------- a shop while prices move ---------------------- *)
\* a stall under buys and sales, updatePrices running in between
PriceInit ==
    /\ shop = Stall
    /\ sellList = shop.list
    /\ loaded = FALSE
    /\ money = [u \in Users |-> IF u = "u1" THEN 10 ELSE 4]
    /\ exp = [u \in Users |-> 0]
    /\ inventory = [u \in Users |->
                      IF u = "u1" THEN <<Held("coke", 2, 1), Held("knife", 9, 2)>>
                      ELSE <<Held("bread", 1, 3)>>]
    /\ pending = EmptyBag
    /\ nextFp = 4
    /\ events = <<>>
    /\ AuthIdle
    /\ ItemsIdle
    /\ ChatIdle
    /\ StoreIdle
    /\ HeapIdle
    /\ BootIdle

\* the clients of the stall ask for its bread and offer what they hold
PriceNext ==
    \/ Load /\ UNCHANGED <<authVars, itemVars, chatVars, storeVars, heapVars, bootVars>>
    \/ \E u \in Users :
          BuyCall(u, "0", "bread") /\ UNCHANGED <<authVars, itemVars, chatVars, storeVars, heapVars, bootVars>>
    \/ \E c \in BagToSet(pending) : BuyHandler(c) /\ UNCHANGED <<authVars, itemVars, chatVars, storeVars, heapVars, bootVars>>
    \/ \E u \in Users : \E fp \in KnownFingerprints(u) :
          SellCall(u, fp) /\ UNCHANGED <<authVars, itemVars, chatVars, storeVars, heapVars, bootVars>>
    \/ \E c \in BagToSet(pending) : SellHandler(c) /\ UNCHANGED <<authVars, itemVars, chatVars, storeVars, heapVars, bootVars>>
    \/ UpdatePrices /\ UNCHANGED <<shopVars, authVars, itemVars, chatVars, heapVars, bootVars>>

PriceSpec == PriceInit /\ [][PriceNext]_vars

(* ------------------- the managers taken on their own ------------------ *)
\* no shop is running
ShopIdle ==
    /\ shop = Closed
    /\ sellList = <<>>
    /\ loaded = FALSE
    /\ money = [u \in Users |-> 0]
    /\ exp = [u \in Users |-> 0]
    /\ inventory = [u \in Users |-> <<>>]
    /\ pending = EmptyBag
    /\ nextFp = 1
    /\ events = <<>>

\* the amounts a player asks pickup for
AmountInputs == {1, 2}

\* the ItemManager under any sequence of drop, pickup and add calls
ItemInit == ShopIdle /\ AuthIdle /\ ItemsIdle /\ ChatIdle /\ StoreIdle /\ HeapIdle /\ BootIdle

ItemNext ==
    \/ \E loc \in Locations, itemObject \in DropInputs : Drop(loc, itemObject)
    \/ \E loc \in Locations, itemName \in NameInputs, amount \in AmountInputs :
          Pickup(loc, itemName, amount)
    \/ \E itemId \in AddIds, durability \in AmountInputs : Add(itemId, durability)

ItemSpec == ItemInit /\ [][ItemNext]_vars

\* the outcomes of the user lookup
LookupOutcomes == {"found", "none", "throws"}

\* the UserManager under any interleaving of authenticate calls
AuthInit == ShopIdle /\ AuthIdle /\ ItemsIdle /\ ChatIdle /\ StoreIdle /\ HeapIdle /\ BootIdle

AuthNext ==
    \/ \E s \in Sockets, token \in Tokens : Authenticate(s, token)
    \/ \E s \in Sockets, outcome \in LookupOutcomes : LookupSettles(s, outcome)
    \/ \E s \in Sockets : LogoutResolves(s)
    \/ \E s \in Sockets : LogoutRejects(s)
    \/ \E s \in Sockets : Register(s)
    \/ \E s \in Sockets : Disconnect(s)

AuthSpec == AuthInit /\ [][AuthNext]_vars

\* the chat commands under any interleaving of command lines, lookups and
\* game ticks
ChatInit == ShopIdle /\ AuthIdle /\ ItemsIdle /\ ChatIdle /\ StoreIdle /\ HeapIdle /\ BootIdle

ChatNext ==
    \/ \E u \in Users, name \in CommandNames, message \in Messages :
          \E target \in (IF resolve(name) = "whisper" THEN TargetInputs ELSE {""}) :
             Command(u, name, target, message)
    \/ \E c \in BagToSet(chatPending) : ChatHandler(c)
    \/ \E c \in BagToSet(chatPending) : ChatLookupRejects(c)
    \/ Tick

ChatSpec == ChatInit /\ [][ChatNext]_vars

\* the ItemManager making, storing and loading an item while prices move
RoundInit == ShopIdle /\ AuthIdle /\ ItemsIdle /\ ChatIdle /\ StoreIdle /\ HeapIdle /\ BootIdle

RoundNext ==
    \/ \E itemId \in AddIds, modifiers \in Modifiers :
          Create(itemId, modifiers) /\ UNCHANGED <<shopVars, authVars, itemVars, chatVars, heapVars, bootVars>>
    \/ DbSave /\ UNCHANGED <<shopVars, authVars, itemVars, chatVars, heapVars, bootVars>>
    \/ LoadCharacterInventory /\ UNCHANGED <<shopVars, authVars, itemVars, chatVars, heapVars, bootVars>>
    \/ UpdatePrices /\ UNCHANGED <<shopVars, authVars, itemVars, chatVars, heapVars, bootVars>>

RoundSpec == RoundInit /\ [][RoundNext]_vars

(* -------------------- instances next to their templates ---------------- *)
\* the amounts a stack is made with or reduced by
UnitInputs == {1, 2}

HeapInit == ShopIdle /\ AuthIdle /\ ItemsIdle /\ ChatIdle /\ StoreIdle /\ HeapIdle /\ BootIdle

HeapNext ==
    \/ \E itemId \in ItemIds, durability \in UnitInputs \cup {Undefined} :
          /\ (durability # Undefined => templates[itemId].stats.stackable)
          /\ HeapAdd(itemId, durability)
          /\ UNCHANGED <<shopVars, authVars, itemVars, chatVars, storeVars, bootVars>>
    \/ \E k \in 1..MaxHand :
          HeapDrop(k) /\ UNCHANGED <<shopVars, authVars, itemVars, chatVars, storeVars, bootVars>>
    \/ \E g \in 1..MaxGround, amount \in UnitInputs :
          HeapPickup(g, amount) /\ UNCHANGED <<shopVars, authVars, itemVars, chatVars, storeVars, bootVars>>
    \/ \E k \in 1..MaxHand :
          HeapSell(k) /\ UNCHANGED <<shopVars, authVars, itemVars, chatVars, storeVars, bootVars>>
    \/ HeapUpdatePrices /\ UNCHANGED <<shopVars, authVars, itemVars, chatVars, storeVars, bootVars>>

HeapSpec == HeapInit /\ [][HeapNext]_vars

(* ------------------------------ the boot ------------------------------- *)
BootInit ==
    /\ ShopIdle /\ AuthIdle /\ ItemsIdle /\ ChatIdle /\ StoreIdle /\ HeapIdle
    /\ BootStart
    /\ autosaveEnabled \in BOOLEAN

BootNext ==
    \/ \E count \in LoadCounts :
          LoadResolves(count) /\ UNCHANGED <<shopVars, authVars, itemVars, chatVars, storeVars, heapVars>>
    \/ LoadRejects /\ UNCHANGED <<shopVars, authVars, itemVars, chatVars, storeVars, heapVars>>
    \/ AutosaveFires /\ UNCHANGED <<shopVars, authVars, itemVars, chatVars, storeVars, heapVars>>

BootSpec == BootInit /\ [][BootNext]_vars

(* ============================== claims ================================ *)
\* the commands whose character lookup is pending
Pending == BagToSet(pending)

\* the sell-list entry a pending buy points at, when there is one
HasEntry(c) == HasIndex(sellList, parseInt(c.index))

Entry(c) == sellList[parseInt(c.index) + 1]

\* the step was a buy handler that reported an error to its actor
BuyFailedWith(c, text) == events' = <<eventToUser(c.user, "error", text, "", 0)>>

\* the state a buy or sell must leave alone when it fails
Untouched == UNCHANGED <<sellList, money, exp, inventory, shop>>

\* checks 1-6 of buy pass for the pending buy c
PassesUpToFunds(c) ==
    /\ shop.sell.enabled
    /\ HasEntry(c)
    /\ Entry(c).id = c.itemId
    /\ ~LessThan(exp[c.user], Entry(c).expRequired)
    /\ Entry(c).id \in DOMAIN templates
    /\ money[c.user] >=
         templates[Entry(c).id].stats.price * shop.sell.priceMultiplier

\* C1, first half: no sell-list entry has a negative shopQuantity other
\* than the infinite sentinel -1
NoNegativeStock ==
    \A k \in 1..Len(sellList) :
        sellList[k].shopQuantity < 0 => sellList[k].shopQuantity = -1

\* C1, second half: a buy handler that finds a finite entry with
\* shopQuantity 0 at its index never succeeds, and when the earlier checks
\* pass it reports the out-of-stock error and changes nothing
BuyOnEmptyStockFails ==
    \A c \in Pending :
        (BuyHandler(c) /\ HasEntry(c) /\ Entry(c).shopQuantity = 0) =>
            /\ Untouched
            /\ Len(events') = 1 /\ events'[1].type = "error"
            /\ PassesUpToFunds(c) => BuyFailedWith(c, MsgNoItem)

\* C1: under every interleaving of calls and handlers a finite shopQuantity
\* is never negative, and a buy on a finite entry whose shopQuantity is 0
\* fails with the out-of-stock error
C1_StockNeverNegative == []NoNegativeStock /\ [][BuyOnEmptyStockFails]_vars

\* C1 witness: in a shop whose two entries are both addressable, an actor who
\* passes the rank and funds checks was just refused an entry with no stock left
C1_Witness ==
    /\ Len(sellList) = 2
    /\ \E k \in 1..2 : sellList[k].shopQuantity = 0
    /\ \A k \in 1..2 : sellList[k].id \in BuyIds
    /\ events = <<eventToUser("u1", "error", MsgNoItem, "", 0)>>
    /\ exp["u1"] >= 2 /\ money["u1"] >= 5

\* the pending buy c passes every check of the handler
PassesAll(c) ==
    /\ PassesUpToFunds(c)
    /\ ~(Entry(c).shopQuantity < 1 /\ Entry(c).shopQuantity # -1)
    /\ Len(inventory[c.user]) < InventorySize

\* C2: a buy that passes every earlier check but finds no room in the
\* actor's inventory debits nothing, leaves the sell list and the inventory
\* alone and emits only the no-inventory-space error to the actor
C2_NoRoomNoMutation ==
    [][\A c \in Pending :
         (BuyHandler(c) /\ PassesUpToFunds(c)
            /\ ~(Entry(c).shopQuantity < 1 /\ Entry(c).shopQuantity # -1)
            /\ Len(inventory[c.user]) >= InventorySize) =>
              Untouched /\ BuyFailedWith(c, MsgNoSpace)]_vars

\* C2 witness: an actor with a full inventory was just told there is no room
C2_Witness ==
    \E u \in Users :
        /\ events = <<eventToUser(u, "error", MsgNoSpace, "", 0)>>
        /\ Len(inventory[u]) = InventorySize

\* the fingerprints of all instances in a container
Fingerprints ==
    {sellList[k].fingerprint : k \in 1..Len(sellList)}
    \cup UNION {{inventory[u][k].fingerprint : k \in 1..Len(inventory[u])} : u \in Users}

\* the step appended exactly one fresh instance of itemId to u's inventory
GrantedOne(u, itemId) ==
    /\ Len(inventory'[u]) = Len(inventory[u]) + 1
    /\ SubSeq(inventory'[u], 1, Len(inventory[u])) = inventory[u]
    /\ inventory'[u][Len(inventory'[u])].id = itemId
    /\ inventory'[u][Len(inventory'[u])].fingerprint \notin Fingerprints

\* C3: no step debits an actor without, in the same step, decrementing the
\* bought entry's finite shopQuantity by 1 (the entry leaves the list when
\* it was the last unit) and granting the actor one fresh instance of it
C3_AtomicCommit ==
    [][\A u \in Users :
         money'[u] < money[u] =>
           \E k \in 1..Len(sellList) :
             /\ money[u] - money'[u] =
                  templates[sellList[k].id].stats.price * shop.sell.priceMultiplier
             /\ GrantedOne(u, sellList[k].id)
             /\ sellList[k].shopQuantity # -1 =>
                  /\ sellList[k].shopQuantity >= 1
                  /\ sellList' = IF sellList[k].shopQuantity = 1
                                 THEN splice(sellList, k - 1)
                                 ELSE [sellList EXCEPT ![k].shopQuantity = @ - 1]]_vars

\* C3 witness: a buy of a finite entry with more than one unit has just
\* committed (the broadcast shows the entry with stock left)
C3_Witness ==
    /\ Len(events) = 3
    /\ events[2].type = "success" /\ events[2].text = "You have purchased 1x"
    /\ events[3].type = "SHOP_UPDATE"
    /\ \E k \in 1..Len(events[3].inventory) :
          events[3].inventory[k].id = events[2].item
          /\ events[3].inventory[k].quantity >= 1

\* the instances a step added to u's inventory
NewlyHeld(u) ==
    {inventory'[u][k] : k \in 1..Len(inventory'[u])}
    \ {inventory[u][k] : k \in 1..Len(inventory[u])}

\* C4: a buy never grants an instance whose id differs from the itemId of
\* the call, and when the entry at the index is absent or has another id
\* the call fails with a not-available error and changes nothing
C4_IdRevalidated ==
    [][\A c \in Pending :
         BuyHandler(c) =>
           /\ \A u \in Users : \A x \in NewlyHeld(u) : x.id = c.itemId
           /\ (shop.sell.enabled /\ ~HasEntry(c)) =>
                 Untouched /\ BuyFailedWith(c, MsgNoItem)
           /\ (shop.sell.enabled /\ HasEntry(c) /\ Entry(c).id # c.itemId) =>
                 Untouched /\ BuyFailedWith(c, MsgNotAvailable)]_vars

\* C4 witness: the market's bread was bought out, the coke moved up to index
\* 0, and a buy was just refused because the entry at its index has another
\* id than the one asked for
C4_Witness ==
    /\ shop = Market /\ loaded
    /\ Len(sellList) = 1 /\ sellList[1].id = "coke"
    /\ \E u \in Users : events = <<eventToUser(u, "error", MsgNotAvailable, "", 0)>>

\* C5: a successful buy of a finite entry whose shopQuantity was 1 removes
\* exactly that entry (the others keep their order), debits the actor
\* template.price * sell.priceMultiplier and grants one instance of the id
C5_LastUnitBought ==
    [][\A c \in Pending :
         (BuyHandler(c) /\ PassesAll(c) /\ Entry(c).shopQuantity = 1) =>
           /\ sellList' = splice(sellList, parseInt(c.index))
           /\ money' = [money EXCEPT ![c.user] =
                 @ - templates[c.itemId].stats.price * shop.sell.priceMultiplier]
           /\ GrantedOne(c.user, c.itemId)
           /\ \A u \in Users \ {c.user} : inventory'[u] = inventory[u]
           /\ \E k \in 1..Len(events') : events'[k].type = "success"]_vars

\* C5 witness: the bakery's last loaf (price 5) was bought by the actor who
\* had cash 10: cash 5, an empty sell list, one bread more in the inventory
C5_Witness ==
    /\ shop = Bakery /\ loaded
    /\ sellList = <<>>
    /\ money["u1"] = 5
    /\ Len(inventory["u1"]) = 3 /\ inventory["u1"][3].id = "bread"
    /\ Len(events) = 3 /\ events[2].type = "success"

\* C6 (as claimed): the SHOP_UPDATE broadcast of a successful buy of a finite
\* entry carries the sell list as it stands once the buy has completed
C6_BroadcastIsFinalList ==
    [][\A c \in Pending :
         (BuyHandler(c) /\ PassesAll(c) /\ Entry(c).shopQuantity # -1) =>
           \E k \in 1..Len(events') :
             /\ events'[k].type = "SHOP_UPDATE"
             /\ events'[k].inventory = getSellList(shop, sellList')]_vars

\* one of the precondition checks of buy fails for the pending buy c
BuyFails(c) ==
    \/ ~shop.sell.enabled
    \/ ~HasEntry(c)
    \/ Entry(c).id # c.itemId
    \/ LessThan(exp[c.user], Entry(c).expRequired)
    \/ Entry(c).id \notin DOMAIN templates
    \/ money[c.user] < templates[Entry(c).id].stats.price * shop.sell.priceMultiplier
    \/ (Entry(c).shopQuantity < 1 /\ Entry(c).shopQuantity # -1)
    \/ Len(inventory[c.user]) >= InventorySize

\* C7: a buy that fails a precondition check leaves cash, inventories,
\* every shopQuantity and the sell list unchanged and emits exactly one
\* event, an error to the initiating actor (so no room broadcast)
C7_FailedBuyChangesNothing ==
    [][\A c \in Pending :
         (BuyHandler(c) /\ BuyFails(c)) =>
           /\ Untouched
           /\ Len(events') = 1
           /\ events'[1].type = "error" /\ events'[1].to = c.user]_vars

\* C7 witness: an actor who cannot afford anything was just refused for
\* lack of money
C7_Witness ==
    /\ events = <<eventToUser("u2", "error", MsgNoMoney, "", 0)>>
    /\ money["u2"] < 5

\* the inventory index (1-based, 0 when absent) of the item a pending sell names
SoldAt(c) ==
    findIndex(inventory[c.user],
              {obj \in Elements(inventory[c.user]) : obj.fingerprint = c.fingerprint}) + 1

\* one of the precondition checks of sell fails for the pending sell c
SellFails(c) ==
    \/ ~shop.buy.enabled
    \/ SoldAt(c) = 0
    \/ shop.buy.list # {} /\ inventory[c.user][SoldAt(c)].id \notin shop.buy.list
    \/ templates[inventory[c.user][SoldAt(c)].id].type \in shop.buy.ignoreType
    \/ templates[inventory[c.user][SoldAt(c)].id].subtype \in shop.buy.ignoreSubtype
    \/ /\ templates[inventory[c.user][SoldAt(c)].id].stats.stackable
       /\ inventory[c.user][SoldAt(c)].durability < 1

\* C8: a sell that fails a precondition changes neither cash, experience,
\* inventories nor the shop's sell and buy lists
C8_FailedSellChangesNothing ==
    [][\A c \in Pending : (SellHandler(c) /\ SellFails(c)) => Untouched]_vars

\* C8 witness: a sell was just refused because no held item has the
\* fingerprint (an earlier sale of the same item ran first)
C8_Witness ==
    \E u \in Users : events = <<eventToUser(u, "error", MsgInvalidItem, "", 0)>>

\* C9: a successful sell takes exactly one unit of the matched item out of
\* the inventory, credits template.price * buy.priceMultiplier and awards
\* 2 experience exactly when the item's subtype is 'drug'
C9_SellEffect ==
    [][\A c \in Pending :
         (SellHandler(c) /\ ~SellFails(c)) =>
           LET u   == c.user
               i   == SoldAt(c)
               it  == inventory[u][i]
               tpl == templates[it.id]
           IN /\ inventory' = [inventory EXCEPT ![u] =
                    IF tpl.stats.stackable /\ it.durability > 1
                    THEN [@ EXCEPT ![i].durability = it.durability - 1]
                    ELSE splice(@, i - 1)]
              /\ money' = [money EXCEPT ![u] =
                    @ + tpl.stats.price * shop.buy.priceMultiplier]
              /\ exp' = [exp EXCEPT ![u] =
                    IF tpl.subtype = "drug" THEN @ + 2 ELSE @]]_vars

\* C9 witness: an actor has just sold the last unit of a stack of coke and
\* the stack is gone; both units earned the experience bonus
C9_Witness ==
    /\ Len(events) = 3
    /\ events[1] = eventToUser("u1", "success", "You sold 1x", "coke", 3)
    /\ \A k \in 1..Len(inventory["u1"]) : inventory["u1"][k].id # "coke"
    /\ exp["u1"] = 4

\* C10 (as claimed): once the shop is loaded no sell-list entry has
\* shopQuantity 0 or a negative shopQuantity other than -1
C10_PrunedAtZero ==
    loaded => \A k \in 1..Len(sellList) :
                 sellList[k].shopQuantity = -1 \/ sellList[k].shopQuantity > 0

\* the first entry of a list that satisfies a test, given as the set of
\* positions (1-based) that satisfy it; 0 when there is none
FirstOf(positions) ==
    IF positions = {} THEN 0 ELSE CHOOSE k \in positions : \A j \in positions : k <= j

\* the stacking-merge of the specification as a relation between the list
\* before, the instance, the amount (0: none given) and the list after
StackingMerge(before, instance, amount, after) ==
    LET sameId   == {k \in 1..Len(before) : before[k].id = instance.id}
        infinite == {k \in sameId : before[k].shopQuantity = -1}
        sameWear == {k \in sameId : before[k].durability = instance.durability}
        bumped(k, by) ==
            /\ Len(after) = Len(before)
            /\ \A j \in 1..Len(before) :
                  after[j] = IF j = k
                             THEN [before[j] EXCEPT !.shopQuantity = before[j].shopQuantity + by]
                             ELSE before[j]
        pushed(quantity) ==
            /\ Len(after) = Len(before) + 1
            /\ \A j \in 1..Len(before) : after[j] = before[j]
            /\ after[Len(after)] = [instance EXCEPT !.shopQuantity = quantity]
    IN IF templates[instance.id].stats.stackable
       THEN IF sameId # {}
            THEN bumped(FirstOf(sameId), IF amount = 0 THEN instance.durability ELSE amount)
            ELSE pushed(IF amount = 0 THEN instance.durability ELSE amount)
       ELSE IF infinite # {} THEN after = before
            ELSE IF sameWear # {} THEN bumped(FirstOf(sameWear), 1)
            ELSE pushed(IF amount = 0 THEN 1 ELSE amount)

\* C11: addToInventory(item, amount) is the stacking-merge of the
\* specification for every sell list, item and amount: a stackable item
\* adds the amount (its own quantity when none is given) to the first entry
\* of its id or is pushed with that quantity; a non-stackable item is
\* dropped when an infinite entry of its id exists, else raises an entry of
\* its id and durability by 1, else is pushed with quantity amount or 1;
\* the list grows by at most one entry
C11_StackingMerge ==
    [][\A itemObj \in MergeItems, amount \in MergeAmounts :
          Merge(itemObj, amount) =>
             /\ StackingMerge(sellList, itemObj, amount, sellList')
             /\ Len(sellList') <= Len(sellList) + 1]_vars

\* a knife was stacked onto the entry of its durability, past an entry of
\* the same id and another durability
C11_Witness ==
    \E k, j \in 1..Len(sellList) :
       /\ j < k
       /\ sellList[k].id = "knife" /\ sellList[j].id = "knife"
       /\ sellList[k].durability # sellList[j].durability
       /\ sellList[k].shopQuantity = MaxQuantity + 1
       /\ sellList[j].shopQuantity <= MaxQuantity

\* the infinite entries of a sell list, in order
InfiniteEntries(list) == SelectSeq(list, LAMBDA item : item.shopQuantity = -1)

\* the positions of the sell list after a resupply pass that hold the
\* entries the pass appended
Appended == (Len(InfiniteEntries(sellList)) + 1)..Len(sellList')

\* the step is a resupply pass of a shop with a supply configuration
ResupplyPass == Resupply /\ shop.hasSupply

\* the candidates of every supply pool have distinct ids, so two entries
\* come from the same candidate exactly when their ids are equal
\* C12: a resupply pass with uniqueItems set never appends two entries
\* drawn from the same candidate of the supply pool
C12_UniquePassNeverRepeats ==
    [][ResupplyPass /\ shop.supply.uniqueItems =>
          \A j, k \in Appended : j # k => sellList'[j].id # sellList'[k].id]_vars

\* a pass of the grocer (uniqueItems set) appended two entries
C12_Witness ==
    /\ shop = Grocer
    /\ loaded
    /\ Len(sellList) = Len(InfiniteEntries(sellList)) + 2

\* a pass of the kiosk (uniqueItems not set) drew the same candidate twice
C12_RepeatDrawn ==
    /\ shop = Kiosk
    /\ Len(sellList) = 2
    /\ sellList[1].id = sellList[2].id

\* C13: a resupply pass appends exactly N entries, N being drawn from the
\* range supply.numberOfItems, so the number of appended entries lies
\* within that range
C13_AppendsWithinRange ==
    [][ResupplyPass =>
          Cardinality(Appended) \in
             shop.supply.numberOfItems[1]..shop.supply.numberOfItems[2]]_vars

\* C13, upper end only: a pass never appends more entries than the maximum
\* of the range
C13_AppendsAtMostMax ==
    [][ResupplyPass => Cardinality(Appended) <= shop.supply.numberOfItems[2]]_vars

\* C14: resupply changes nothing in a shop without supply configuration;
\* otherwise it removes every finite entry and keeps the infinite entries,
\* in their order, ahead of the entries it appends
C14_KeepsInfiniteDropsFinite ==
    [][Resupply =>
          IF ~shop.hasSupply
          THEN UNCHANGED <<shop, sellList, nextFp>>
          ELSE LET kept == InfiniteEntries(sellList)
               IN /\ Len(sellList') >= Len(kept)
                  /\ SubSeq(sellList', 1, Len(kept)) = kept
                  /\ \A k \in Appended : sellList'[k].fingerprint >= nextFp
                  /\ \A j \in 1..Len(sellList) :
                        sellList[j].shopQuantity # -1 =>
                           \A k \in 1..Len(sellList') :
                              sellList'[k].fingerprint # sellList[j].fingerprint]_vars

\* the grocer's finite loaf is gone, its two infinite entries lead the list
\* in their order and a resupplied entry follows them
C14_Witness ==
    /\ shop = Grocer
    /\ loaded
    /\ Len(sellList) >= 3
    /\ sellList[1].id = "coke" /\ sellList[1].shopQuantity = -1
    /\ sellList[2].id = "knife" /\ sellList[2].shopQuantity = -1
    /\ sellList[3].shopQuantity # -1
    /\ \A k \in 1..Len(sellList) : sellList[k].fingerprint # 2

\* C15: at most one session per account is registered at any time: no two
\* registered sockets carry the same user_id
C15_OneSessionPerAccount ==
    \A s, t \in clients : s # t => socketUser[s] # socketUser[t]

\* C16: a socket of an account that has a registered session is marked
\* with the user and added to the registry only after logoutOutSession has
\* completed, and only if it succeeded
C16_RegisteredOnlyAfterLogout ==
    [][\A s \in Sockets :
          Register(s) /\ PriorSessions(s, auth[s].user_id) # {} =>
             auth[s].pc = "resolved"]_vars

\* C17: add(itemId, ...) for an itemId without template returns null and
\* leaves the dropped-items registry as it was (the template registry is
\* the constant templates, which no step can change)
C17_UnknownIdGivesNull ==
    [][\A itemId \in AddIds, durability \in AmountInputs :
          Add(itemId, durability) /\ itemId \notin DOMAIN templates =>
             result' = ReturnedNull /\ UNCHANGED dropped]_vars

\* add returned null while items lie on the ground
C17_Witness ==
    /\ result = ReturnedNull
    /\ \E loc \in Locations : Len(dropped[loc]) > 0

\* the entries of an item id at a location (positions)
EntriesOf(list, itemId) == {k \in 1..Len(list) : list[k].id = itemId}

\* the units of an item id on the ground at a location
UnitsOf(list, itemId) ==
    IF EntriesOf(list, itemId) = {} THEN 0
    ELSE list[CHOOSE k \in EntriesOf(list, itemId) : TRUE].durability

StackableIds == {itemId \in ItemIds : templates[itemId].stats.stackable}

\* C18: at every location a stackable item id has at most one entry, and a
\* drop of a stackable instance leaves exactly one entry of its id whose
\* quantity is the quantity on the ground before plus the dropped one, so
\* that (pickups aside) the entry holds the sum of all dropped quantities
C18_StackableDropsMerge ==
    /\ [](\A loc \in Locations, itemId \in StackableIds :
            Cardinality(EntriesOf(dropped[loc], itemId)) <= 1)
    /\ [][\A loc \in Locations :
            \A itemObject \in {item \in DropInputs : item.id \in StackableIds} :
            Drop(loc, itemObject) =>
               /\ Cardinality(EntriesOf(dropped'[loc], itemObject.id)) = 1
               /\ UnitsOf(dropped'[loc], itemObject.id) =
                     UnitsOf(dropped[loc], itemObject.id) + itemObject.durability]_vars

\* a stack on the ground holds more units than any single dropped instance
C18_Witness ==
    \E loc \in Locations : \E k \in 1..Len(dropped[loc]) :
       /\ dropped[loc][k].id \in StackableIds
       /\ dropped[loc][k].durability = MaxStack
       /\ Len(dropped[loc]) > 1

\* every instance lying on the ground
OnTheGround == UNION {Elements(dropped[loc]) : loc \in Locations}

\* C19: drop clears the persistence key (_id) and the inventory-slot
\* assignment of every dropped instance, stackable or not
C19_DropClearsKeyAndSlot ==
    \A item \in OnTheGround : item.dbId = "" /\ item.inventorySlot = ""

\* C19, the key alone: no instance on the ground has a persistence key
C19_DropClearsKey == \A item \in OnTheGround : item.dbId = ""

\* C19, non-stackable instances alone: none on the ground has a slot
C19_DropClearsSlotOfNonStackable ==
    \A item \in OnTheGround :
       item.id \notin StackableIds => item.inventorySlot = ""

\* a name in lower case, letter by letter
Lowered(name) ==
    [k \in 1..Len(name) |->
        CASE name[k] = "A" -> "a" [] name[k] = "B" -> "b" [] name[k] = "C" -> "c"
          [] name[k] = "D" -> "d" [] name[k] = "E" -> "e" [] name[k] = "K" -> "k"
          [] name[k] = "O" -> "o" [] name[k] = "R" -> "r" [] OTHER -> name[k]]

\* name begins with query
BeginsWith(name, query) ==
    Len(query) <= Len(name) /\ SubSeq(name, 1, Len(query)) = query

\* query occurs somewhere in name
Contains(name, query) ==
    \E i \in 0..(Len(name) - Len(query)) : SubSeq(name, i + 1, i + Len(query)) = query

\* the position (1-based) of the entry a name query selects when the
\* fallback is a match at the beginning of the name; 0: none
TargetByPrefix(list, query) ==
    LET exact  == {k \in 1..Len(list) : Lowered(list[k].name) = Lowered(query)}
        prefix == {k \in 1..Len(list) : BeginsWith(Lowered(list[k].name), Lowered(query))}
    IN IF query = <<>> THEN 1
       ELSE IF exact # {} THEN FirstOf(exact) ELSE FirstOf(prefix)

\* the same when the fallback is a match anywhere in the name
TargetByContains(list, query) ==
    LET exact == {k \in 1..Len(list) : Lowered(list[k].name) = Lowered(query)}
        inner == {k \in 1..Len(list) : Contains(Lowered(list[k].name), Lowered(query))}
    IN IF query = <<>> THEN 1
       ELSE IF exact # {} THEN FirstOf(exact) ELSE FirstOf(inner)

\* what a pickup did, given the entry it had to select (0: none): an empty
\* location and a missing entry are reported as results and leave the list
\* alone, otherwise the selected entry is the one taken or reduced
PickupTook(before, target, after, returned) ==
    IF Len(before) = 0
    THEN returned = Failure(MsgNoItems) /\ after = before
    ELSE IF target = 0
    THEN returned = Failure(MsgNotFound) /\ after = before
    ELSE /\ returned.kind = "item"
         /\ returned.item.id = before[target].id
         /\ \/ after = splice(before, target - 1)
            \/ /\ Len(after) = Len(before)
               /\ after[target].durability < before[target].durability
               /\ \A k \in 1..Len(before) : k # target => after[k] = before[k]

\* C20: pickup fails with the empty error at an empty location; with a
\* name query it takes the first entry whose name equals the query without
\* regard to case, else the first entry whose name begins with the query,
\* else fails not-found; without query it takes the first entry; failures
\* are returned and leave the list unchanged
C20_PickupSelectsByPrefix ==
    [][\A loc \in Locations, itemName \in NameInputs, amount \in AmountInputs :
          Pickup(loc, itemName, amount) =>
             PickupTook(dropped[loc], TargetByPrefix(dropped[loc], itemName),
                        dropped'[loc], result')]_vars

\* C20 with the fallback the code has: the first entry whose name contains
\* the query
C20_PickupSelectsByContains ==
    [][\A loc \in Locations, itemName \in NameInputs, amount \in AmountInputs :
          Pickup(loc, itemName, amount) =>
             PickupTook(dropped[loc], TargetByContains(dropped[loc], itemName),
                        dropped'[loc], result')]_vars

\* what a pickup of the entry at position target did to it
PickupSplit(before, target, amount, after, returned) ==
    LET entry == before[target]
        q     == entry.durability
    IN IF entry.id \notin StackableIds \/ amount >= q
       THEN after = splice(before, target - 1) /\ returned = Returned(entry)
       ELSE /\ Len(after) = Len(before)
            /\ \A k \in 1..Len(before) :
                  after[k] = IF k = target THEN [entry EXCEPT !.durability = q - amount]
                             ELSE before[k]
            /\ returned.kind = "item"
            /\ returned.item.id = entry.id
            /\ returned.item.durability = amount
            /\ after[target].durability + returned.item.durability = q

\* C21: pickup of a stackable entry of quantity q with amount a removes and
\* returns the whole entry when a >= q, and otherwise leaves q - a on the
\* ground and returns a new instance of quantity a (ground plus returned is
\* q); a non-stackable entry is always removed and returned whole.  Stated
\* of the call Pickup makes, for every list on the ground that is reached
C21_PickupSplitsStack ==
    \A loc \in Locations, itemName \in NameInputs, amount \in AmountInputs :
       LET before == dropped[loc]
           target == pickupTarget(before, itemName) + 1
           done   == pickup(before, itemName, amount)
       IN Len(before) > 0 /\ target # 0 =>
             PickupSplit(before, target, amount, done.list, done.result)

\* one unit was taken off a full stack: the rest lies on the ground
C21_Witness ==
    /\ result = Returned(Instance("coke", 1, "", ""))
    /\ \E loc \in Locations : \E k \in 1..Len(dropped[loc]) :
          dropped[loc][k].id = "coke" /\ dropped[loc][k].durability = MaxStack - 1
    /\ \A loc \in Locations : Len(dropped[loc]) <= 1


(* ------------------------------- chat ---------------------------------- *)
\* the step runs checkChatCooldown for u: the callback of a /global or /say
\* of u, or a valid /whisper of u
ChatAttempt(u) ==
    \/ /\ chatPending' # chatPending
       /\ \E c \in BagToSet(chatPending) : c.user = u /\ ChatHandler(c)
    \/ /\ chatPending' = chatPending
       /\ chatEvents' # <<>>
       /\ chatEvents'[1].command = ""
       /\ \E target \in Users, message \in Messages :
             /\ validate(Registry.whisper.params, <<target, message>>) = ""
             /\ Command(u, "/whisper", target, message)

\* a chat message of u goes out in the step
Published(u) ==
    \E k \in 1..Len(chatEvents') :
       /\ chatEvents'[k].kind = "CHAT_MESSAGE"
       /\ chatEvents'[k].from = u
       /\ chatEvents'[k].type \in {"global", "local", "whisper-in"}

\* the step sends u the wait error and nothing else
Rejected(u) == chatEvents' = <<ChatError(u, MsgWait, cooldown[u])>>

\* C22: a fresh character's 'chat' cooldown reads 0; after the add of an
\* accepted chat command it reads the configured default, which is > 0;
\* a tick takes one off, so after that many ticks it reads 0 again; a chat
\* command is rejected inside the window and accepted outside it
C22_CooldownWindow ==
    /\ ChatDefault > 0
    /\ [](\A u \in Users : ticksLeft(cooldown, u) = ChatDefault - sinceAdd[u])
    /\ [][\A u \in Users :
             ChatAttempt(u) =>
                IF sinceAdd[u] < ChatDefault
                THEN Rejected(u) /\ ~Published(u)
                ELSE Published(u) /\ ticksLeft(cooldown', u) = ChatDefault]_vars

\* a command of a character is refused one tick before its window ends
C22_Witness ==
    \E u \in Users :
       /\ chatEvents = <<ChatError(u, MsgWait, 1)>>
       /\ sinceAdd[u] = ChatDefault - 1


\* C23: the ticks left of a character only go up by the add of a chat
\* command that is accepted (from 0 to the default); a chat command met by
\* a running cooldown sends the wait error only and leaves every cooldown
\* as it was
C23_RejectionKeepsCooldown ==
    [][\A u \in Users :
          /\ ticksLeft(cooldown', u) > ticksLeft(cooldown, u) =>
                /\ Published(u)
                /\ ticksLeft(cooldown, u) = 0
                /\ ticksLeft(cooldown', u) = ChatDefault
          /\ (ticksLeft(cooldown, u) > 0 /\ ChatAttempt(u)) =>
                /\ chatEvents' = <<ChatError(u, MsgWait, ticksLeft(cooldown, u))>>
                /\ cooldown' = cooldown
                /\ sinceAdd' = sinceAdd]_vars

\* a command is refused right after the add, the window still whole
C23_Witness ==
    \E u \in Users :
       /\ chatEvents = <<ChatError(u, MsgWait, ChatDefault)>>
       /\ ticksLeft(cooldown, u) = ChatDefault

\* C24: in every state, a /whisper (under any of its names) without its
\* Message fails validation before the handler runs: the sender gets the
\* missing-parameter error, nobody gets a CHAT_MESSAGE, and the sender's
\* cooldown is not started
C24_WhisperWithoutMessage ==
    \A u \in Users, name \in Registry.whisper.names, target \in TargetInputs :
       \A done \in {parse(cooldown, u, name, target, "")} :
           /\ Len(done.events) = 1
           /\ done.events[1].kind = "error"
           /\ done.events[1].to = u
           /\ done.events[1].command = name
           /\ target \in Users =>
                 (done.events[1].text = "MissingParam" /\ done.events[1].param = 2)
           /\ target = "" =>
                 (done.events[1].text = "MissingParam" /\ done.events[1].param = 1)
           /\ done.cooldown = cooldown
           /\ ~done.added
           /\ done.queued = {}

\* an alias of /whisper with a player as target and no message was refused,
\* the sender having no cooldown running
C24_Witness ==
    \E u \in Users :
       /\ chatEvents = <<CommandError(u, "MissingParam", "/pm", 2)>>
       /\ ticksLeft(cooldown, u) = 0
       /\ \E other \in Users : ticksLeft(cooldown, other) > 0

HeldSlots == {<<u, k>> : u \in Users, k \in 1..InventorySize}

HeldAt(slot) == slot[2] <= Len(inventory[slot[1]])

NotifiedTo(u) ==
    {k \in 1..Len(events') : events'[k].to = u /\ events'[k].type \in {"success", "error"}}

\* C26: the step that settles a buyItem or sellItem invocation sends its
\* user exactly one notification, success or error (an invocation settled
\* without one is never answered)
C26_EveryCommandNotified ==
    [][\A c \in BagToSet(pending) :
          CopiesIn(c, pending') < CopiesIn(c, pending) =>
             Cardinality(NotifiedTo(c.user)) = 1]_vars


(* --------------------------- infinite stock ---------------------------- *)
\* C29: an item the loaded sell list offers with infinite stock (-1) is
\* on the list with shopQuantity -1 after every step: a buy, a sale that is
\* resold, a resupply pass
C29_InfiniteStockStays ==
    [][\A k \in 1..Len(sellList) :
          (loaded /\ sellList[k].shopQuantity = -1) =>
             \E j \in 1..Len(sellList') :
                /\ sellList'[j].id = sellList[k].id
                /\ sellList'[j].shopQuantity = -1]_vars


(* ----------------------------- live prices ----------------------------- *)
\* C27: a buy is checked and charged, and a sale is credited, at the
\* template's price as it is when the handler runs, whatever the price was
\* when the command was sent: a buy that goes through finds the funds for
\* that price and takes exactly it, a buy refused for lack of money lacks
\* exactly it, a sale adds exactly it (times the side's multiplier)
C27_PriceAtCommit ==
    [][\A c \in BagToSet(pending) :
          (CopiesIn(c, pending') < CopiesIn(c, pending) /\ events' # <<>>) =>
             /\ (Len(events') >= 2 /\ events'[2].text = "You have purchased 1x") =>
                   /\ money[c.user] >= prices[events'[2].item] * shop.sell.priceMultiplier
                   /\ money'[c.user] =
                         money[c.user] - prices[events'[2].item] * shop.sell.priceMultiplier
                   /\ events'[2].amount =
                         prices[events'[2].item] * shop.sell.priceMultiplier
             /\ events'[1].text = MsgNoMoney =>
                   money[c.user] < prices[sellList[parseInt(c.index) + 1].id]
                                      * shop.sell.priceMultiplier
             /\ events'[1].text = "You sold 1x" =>
                   /\ money'[c.user] =
                         money[c.user] + prices[events'[1].item] * shop.buy.priceMultiplier
                   /\ events'[1].amount =
                         prices[events'[1].item] * shop.buy.priceMultiplier]_vars

\* a buy went through at a price that is not the one the template was
\* loaded with
C27_Witness ==
    /\ reshuffled
    /\ Len(events) >= 2
    /\ events[2].text = "You have purchased 1x"
    /\ events[2].amount # templates[events[2].item].stats.price * shop.sell.priceMultiplier
    /\ events[2].amount = prices[events[2].item] * shop.sell.priceMultiplier


C31_RegisteredOnlyIfFound ==
    \A s \in Sockets :
       /\ socketUser[s] # UndefinedId
       /\ s \in clients => socketUser[s] \in Accounts


(* --------------------------- order of checks --------------------------- *)
\* the preconditions of a buy in the order of the claim; CheckFails(c, i)
\* says that the pending buy c violates the i-th one (a check about the
\* entry is not violated where there is no entry)
CheckFails(c, i) ==
    CASE i = 1 -> ~shop.sell.enabled
      [] i = 2 -> ~HasEntry(c)
      [] i = 3 -> HasEntry(c) /\ Entry(c).id # c.itemId
      [] i = 4 -> HasEntry(c) /\ LessThan(exp[c.user], Entry(c).expRequired)
      [] i = 5 -> HasEntry(c) /\ Entry(c).id \notin DOMAIN templates
      [] i = 6 -> /\ HasEntry(c)
                  /\ Entry(c).id \in DOMAIN templates
                  /\ money[c.user] <
                        templates[Entry(c).id].stats.price * shop.sell.priceMultiplier
      [] i = 7 -> HasEntry(c) /\ Entry(c).shopQuantity < 1 /\ Entry(c).shopQuantity # -1
      [] i = 8 -> Len(inventory[c.user]) >= InventorySize

\* the error of the i-th precondition
CheckMessage(i) ==
    CASE i = 1 -> MsgNotSelling
      [] i = 2 -> MsgNoItem
      [] i = 3 -> MsgNotAvailable
      [] i = 4 -> MsgRank
      [] i = 5 -> MsgInvalidTpl
      [] i = 6 -> MsgNoMoney
      [] i = 7 -> MsgNoItem
      [] i = 8 -> MsgNoSpace

Checks == 1..8

\* C32: a buy that violates one or more preconditions reports the error of
\* the first one it violates, in the order: not selling, no entry, id
\* mismatch, rank, template, funds, stock, inventory space; a buy that
\* violates none reports no error.  The handler's checks applied to an actor
\* without cash who asks for an entry that is sold out report the funds
C32_FirstFailingCheck ==
    /\ [][\A c \in Pending :
             BuyHandler(c) =>
                /\ \A i \in Checks :
                      (CheckFails(c, i) /\ \A j \in 1..(i - 1) : ~CheckFails(c, j)) =>
                         BuyFailedWith(c, CheckMessage(i))
                /\ (\A i \in Checks : ~CheckFails(c, i)) =>
                      \A k \in 1..Len(events') : events'[k].type # "error"]_vars
    /\ [](\A k \in 1..Len(sellList) :
             (shop.sell.enabled /\ k <= 2) =>
                BuyError(shop, [sellList EXCEPT ![k].shopQuantity = 0], 2, 0,
                         <<>>, IF k = 1 THEN "0" ELSE "1", sellList[k].id) = MsgNoMoney)

\* an actor without rank and without room was told about the rank
C32_Witness ==
    /\ events = <<eventToUser("u1", "error", MsgRank, "", 0)>>
    /\ Len(inventory["u1"]) = InventorySize
    /\ exp["u1"] = 0

\* the units of an item id the shop holds in entries of finite quantity
RECURSIVE FiniteStock(_, _)
FiniteStock(list, itemId) ==
    IF list = <<>> THEN 0
    ELSE (IF list[1].id = itemId /\ list[1].shopQuantity # -1
          THEN list[1].shopQuantity ELSE 0) + FiniteStock(Tail(list), itemId)

\* the sell list holds an infinite entry of a non-stackable item of the id
InfiniteNonStackable(list, itemId) ==
    /\ ~templates[itemId].stats.stackable
    /\ \E k \in 1..Len(list) : list[k].id = itemId /\ list[k].shopQuantity = -1

\* C33 (as claimed): a successful sale to a shop that resells raises the
\* shop's finite stock of the sold id by exactly 1, unless the sell list
\* holds an infinite entry of a non-stackable item of that id; a shop that
\* does not resell keeps its sell list
C33_ResaleConservesUnits ==
    [][\A c \in Pending :
         (SellHandler(c) /\ ~SellFails(c)) =>
            LET itemId == inventory[c.user][SoldAt(c)].id
            IN IF shop.buy.resell
               THEN \/ InfiniteNonStackable(sellList, itemId)
                    \/ FiniteStock(sellList', itemId) = FiniteStock(sellList, itemId) + 1
               ELSE sellList' = sellList]_vars

\* C34 (as claimed): a resupply pass over a non-empty pool of candidates, of
\* which it is asked to add no more than there are, never raises: every
\* index it draws addresses a candidate of the remaining pool
C34_ResupplyNeverRaises ==
    (/\ loaded
     /\ shop.hasSupply
     /\ Len(shop.supply.items) > 0
     /\ shop.supply.numberOfItems[2] <= Len(shop.supply.items)) =>
        \A r \in ResupplyResults(shop, sellList, nextFp) : ~r.threw

\* C35: an actor's cash is never negative, whatever buys and sells were
\* called and in whatever order their handlers ran; a buy takes no more than
\* the actor has, a sale takes nothing
C35_CashNeverNegative ==
    /\ [](\A u \in Users : money[u] >= 0)
    /\ [][\A c \in Pending :
             /\ BuyHandler(c) => money[c.user] - money'[c.user] \in 0..money[c.user]
             /\ SellHandler(c) => money'[c.user] >= money[c.user]]_vars

\* an actor who has sold an item and spent the proceeds on a buy is refused
\* the next buy for lack of money
C35_Witness ==
    /\ events = <<eventToUser("u2", "error", MsgNoMoney, "", 0)>>
    /\ money["u2"] = 4
    /\ \E k \in 1..Len(inventory["u2"]) : inventory["u2"][k].fingerprint > 3

\* the amounts pickup may be called with: negative, 0, positive, none
PickupAmounts == {-1, 0, 1, 2, Undefined}

\* C36 (as claimed): whatever amount pickup is called with, the stackable
\* entry it addresses, if it stays on the ground, keeps a quantity that is
\* positive and no larger than before, and the instance returned holds no
\* more than was on the ground
C36_PickupKeepsQuantitySane ==
    \A loc \in Locations, itemName \in NameInputs, amount \in PickupAmounts :
       LET before == dropped[loc]
           t      == pickupTarget(before, itemName)
       IN (/\ Len(before) > 0
           /\ t # -1
           /\ getTemplate(before[t + 1].id).stats.stackable) =>
             \A done \in {pickup(before, itemName, amount)} :
                /\ Len(done.list) = Len(before) =>
                      done.list[t + 1].durability \in 1..before[t + 1].durability
                /\ done.result.kind = "item" =>
                      done.result.item.durability <= before[t + 1].durability

\* the stats objects of the instances that exist
Live(held1, held2) == Referenced(held1, held2)

\* the instances that exist, as a sequence
Instances == hand \o ground

\* C37: no instance refers to the stats of a template or of another
\* instance; a step changes the stats of at most one instance that exists
\* before and after it, and of none when it is updatePrices; the stats of a
\* template change only in updatePrices and only in their price
C37_InstancesIsolated ==
    /\ [](/\ \A k \in 1..Len(Instances) : Instances[k].stats \notin TemplateRefs
          /\ \A j, k \in 1..Len(Instances) :
                j # k => Instances[j].stats # Instances[k].stats)
    /\ [][LET kept    == Live(hand, ground) \cap Live(hand', ground')
              changed == {ref \in kept : statsOf'[ref] # statsOf[ref]}
          IN /\ Cardinality(changed) <= 1
             /\ \A ref \in TemplateRefs :
                   statsOf'[ref] # statsOf[ref] =>
                      /\ changed = {}
                      /\ UNCHANGED <<hand, ground>>
                      /\ statsOf'[ref] = [statsOf[ref] EXCEPT !.price = statsOf'[ref].price]
                      /\ statsOf'[ref].price \in 3..6]_vars

\* a stack of coke on the ground grew to 3 by a merge and was reduced by a
\* partial pickup, the instance picked up is held, and the price of the
\* coke template has moved: the template's durability is as loaded
C37_Witness ==
    /\ Len(ground) = 1 /\ ground[1].id = "coke"
    /\ statsOf[ground[1].stats].durability = 2
    /\ Len(hand) = 1 /\ hand[1].id = "coke"
    /\ statsOf[hand[1].stats].durability = 1
    /\ statsOf[hand[1].stats].price = 3
    /\ statsOf[TemplateRef("coke")].price = 4
    /\ statsOf[TemplateRef("coke")].durability = 1

\* C38: a whisper with a target and a message, sent while the sender's
\* cooldown reads 0, emits two CHAT_MESSAGE events and nothing else: a
\* 'whisper-out' to the sender's socket that names the target, then a
\* 'whisper-in' to the target's user id that names the sender, both with the
\* message; nothing waits for a lookup
C38_WhisperEmitsTwo ==
    \A u \in Users, name \in Registry.whisper.names, target \in Users,
       message \in Messages :
       (/\ validate(Registry.whisper.params, <<target, message>>) = ""
        /\ ticksLeft(cooldown, u) = 0) =>
          \A done \in {parse(cooldown, u, name, target, message)} :
             /\ Len(done.events) = 2
             /\ \A k \in 1..2 :
                   /\ done.events[k].kind = "CHAT_MESSAGE"
                   /\ done.events[k].text = message
             /\ done.events[1].type = "whisper-out"
             /\ done.events[1].via = "socket"
             /\ done.events[1].to = u
             /\ done.events[1].from = target
             /\ done.events[2].type = "whisper-in"
             /\ done.events[2].via = "user"
             /\ done.events[2].to = target
             /\ done.events[2].from = u
             /\ done.queued = {}

\* u1 has just whispered "hi" to u2
C38_Witness ==
    /\ Len(chatEvents) = 2
    /\ chatEvents[1].type = "whisper-out" /\ chatEvents[1].to = "u1"
    /\ chatEvents[2].type = "whisper-in" /\ chatEvents[2].to = "u2"
    /\ chatEvents[2].text = "hi"
    /\ ticksLeft(cooldown, "u1") = ChatDefault

\* the stages whose load has completed, in the order of completion
LoadedStages == [k \in 1..Len(bootLog) |-> bootLog[k].stage]

\* C39: the server listens only when the item, map and faction loads have
\* completed, in that order, and it starts to listen in the step that
\* completes the last of them; once a load has failed the server does not
\* listen, autosave is not scheduled and nothing changes that; autosave is
\* scheduled, and the autosave callback runs, only when autosave is enabled
C39_BootOrder ==
    /\ [](listening => LoadedStages = Stages)
    /\ [](\A k \in 1..Len(LoadedStages) : LoadedStages[k] = Stages[k])
    /\ [](bootPc = "failed" => ~listening /\ ~autosave /\ saves = 0)
    /\ [][bootPc = "failed" => bootPc' = "failed"]_vars
    /\ [][(~listening /\ listening') =>
             (bootPc = "factions" /\ Len(bootLog') = Len(Stages))]_vars
    /\ []((autosave \/ saves > 0) => (autosaveEnabled /\ listening))
    /\ [](bootPc = "done" => (listening /\ autosave = autosaveEnabled))

\* the three loads completed, the server listens and the autosave callback
\* has run
C39_Witness ==
    /\ listening
    /\ LoadedStages = Stages
    /\ autosave
    /\ saves = MaxSaves

\* the map load failed after the items were loaded: the server does not
\* listen although autosave is enabled
C39_FailedBoot ==
    /\ bootPc = "failed"
    /\ LoadedStages = <<"items">>
    /\ autosaveEnabled
    /\ ~listening

\* the price types a caller names
PriceTypes ==
    {SideBuy, SideSell, <<"B", "u", "y">>, <<"S", "E", "L", "L">>,
     <<"r", "e", "n", "t">>}

\* C40 (as claimed): for an item id with a template and a priceType that
\* reads 'buy' or 'sell' in any case, Shop.getItemPrice resolves to the
\* template's current price times the multiplier of that side; for any
\* other item id or priceType it rejects
C40_ShopItemPrice ==
    \A itemId \in AddIds, priceType \in PriceTypes :
       LET side == toLowerCase(priceType)
       IN IF HasTemplate(itemId) /\ side \in {SideSell, SideBuy}
          THEN ShopItemPrice(shop, itemId, priceType) =
                  Resolved(prices[itemId] *
                           (IF side = SideSell THEN shop.sell.priceMultiplier
                            ELSE shop.buy.priceMultiplier))
          ELSE ShopItemPrice(shop, itemId, priceType) = Rejects

\* C40, the rejections only: an item id without template or a priceType
\* other than 'buy' and 'sell' is rejected
C40_RejectsUnknown ==
    \A itemId \in AddIds, priceType \in PriceTypes :
       (~HasTemplate(itemId) \/ toLowerCase(priceType) \notin {SideSell, SideBuy}) =>
          ShopItemPrice(shop, itemId, priceType) = Rejects

====
